---- MODULE Spec2Model ----
(***************************************************************************)
(* A model of libchirp's connection / remote life cycle and write path:    *)
(* one chirp node, the Remote of one peer, a small pool of connections and *)
(* of user messages.  Every action is one callback of the event loop (or   *)
(* one call of the public API) and runs to completion, as the code does on *)
(* its single loop thread.  libuv and the peer are the environment.        *)
(*                                                                         *)
(* The C functions are operators from a world record to a world record,    *)
(* so that a handler is the composition of the calls it makes.  The world  *)
(* record w has one field per variable of the module.                      *)
(*                                                                         *)
(* The build modelled is the default one of libchirp-config.h:             *)
(* CH_ENABLE_ASSERTS is not defined, so A(...) expands to nothing; the     *)
(* connections are not encrypted (loopback or DISABLE_ENCRYPTION).         *)
(***************************************************************************)
EXTENDS Integers, Sequences, FiniteSets, TLC

VARIABLES
    msg,        \* ch_message_t of every message object (user, ACK, NOOP)
    remote,     \* ch_remote_t objects
    conn,       \* ch_connection_t objects
    protocol,   \* ch_protocol_t
    ichirp,     \* ch_chirp_int_t
    uv,         \* what libuv / the peer still owe us per connection
    hist        \* history variables (observation only, never read by code)

vars == <<msg, remote, conn, protocol, ichirp, uv, hist>>

(***************************************************************************)
(* Bounds of the model.                                                    *)
(***************************************************************************)
MaxMsgs == 2        \* user message objects
MaxConns == 2       \* connection objects that can be allocated at a time
MaxRemotes == 2     \* remote objects that can be allocated at a time
MaxSends == 2       \* sends the user makes in one behaviour
MaxRecv == 1        \* data messages the peer sends in one behaviour
MaxAccepts == 1     \* connections the peer opens in one behaviour
MaxEvents == 1      \* a behaviour has at most this many of: the peer opens
                    \* a connection, the peer sends a data message, a
                    \* REUSE_TIME passes in silence, the user closes chirp

\* a second set of limits: a peer that sends more, a user that sends less
PeerSends == 1
PeerRecv == 2
PeerEvents == 2

\* a third set of limits: a user that sends more, a peer that only answers
DeepSends == 4
MaxSyncFails == 1   \* connects that fail before uv_tcp_connect returns
MaxPoolCalls == 7   \* calls of the buffer pool's functions on one pool

SerialWidth == 32   \* ch_message_t.serial is a uint32_t
MAX_SLOTS == 1      \* config.MAX_SLOTS: what ch_chirp_init sets in synchronous
                    \* mode, and what the asynchronous configuration asks for
CH_ID_SIZE == 16    \* bytes of an identity
ChirpHandles == 9   \* handles closed with ch_chirp_close_cb: 4 of the
                    \* protocol, 2 signals, send_ts, release_ts, close

NULL == 0
Msgs == 1..MaxMsgs
Conns == 1..MaxConns
Remotes == 1..MaxRemotes
Sends == 1..MaxSends

NoopOf(r) == 10 + r         \* remote->noop
AckOf(c) == 20 + c          \* &conn->ack_msg
IsUser(m) == m \in Msgs
IsNoop(m) == m > 10 /\ m <= 20
IsAck(m) == m > 20
ConnOfAck(m) == m - 20
MsgRefs == Msgs \cup {NoopOf(r) : r \in Remotes} \cup {AckOf(c) : c \in Conns}

\* ch_error_t values that reach a send callback
CH_SUCCESS == "SUCCESS"
CH_PROTOCOL_ERROR == "PROTOCOL_ERROR"
CH_TIMEOUT == "TIMEOUT"
CH_ENOMEM == "ENOMEM"
CH_SHUTDOWN == "SHUTDOWN"
CH_CANNOT_CONNECT == "CANNOT_CONNECT"
CH_WRITE_ERROR == "WRITE_ERROR"
CH_QUEUED == "QUEUED"
CH_USED == "USED"

\* ch_msg_types_t and ch_msg_flags_t
CH_MSG_REQ_ACK == "REQ_ACK"
CH_MSG_ACK == "ACK"
CH_MSG_NOOP == "NOOP"
CH_MSG_USED == "USED"
CH_MSG_ACK_RECEIVED == "ACK_RECEIVED"
CH_MSG_WRITE_DONE == "WRITE_DONE"
CH_MSG_FAILURE == {CH_MSG_ACK_RECEIVED, CH_MSG_WRITE_DONE}
CH_MSG_HAS_SLOT == "HAS_SLOT"
CH_MSG_SEND_ACK == "SEND_ACK"

\* the message of a slot that is not in use
NoMsg == [type |-> {}, flags |-> {}]

\* ch_cn_flags_t (the ones the modelled code reads)
CH_CN_SHUTTING_DOWN == "SHUTTING_DOWN"
CH_CN_CONNECTED == "CONNECTED"
CH_CN_INCOMING == "INCOMING"
CH_CN_STOPPED == "STOPPED"
CH_CN_INIT_CLIENT == "INIT_CLIENT"
CH_CN_INIT_READER_WRITER == "INIT_READER_WRITER"
CH_CN_INIT_CONNECT_TIMEOUT == "INIT_CONNECT_TIMEOUT"
CH_CN_DO_CLOSE_ACCOUTING == "DO_CLOSE_ACCOUTING"

\* ch_chirp_flags_t
CH_CHIRP_CLOSING == "CLOSING"
CH_CHIRP_CLOSED == "CLOSED"

\* ch_rd_state_t
CH_RD_START == "START"
CH_RD_HANDSHAKE == "HANDSHAKE"
CH_RD_WAIT == "WAIT"

(***************************************************************************)
(* Objects as they are after memset(0) / before allocation.                *)
(***************************************************************************)
ch_msg_init ==
    [flags |-> {}, send_cb |-> "NULL", next |-> FALSE, type |-> {},
     identity |-> 0, release_cb |-> FALSE]

NoRemote ==
    [alloc |-> FALSE, conn |-> NULL, msg_queue |-> <<>>,
     cntl_msg_queue |-> <<>>, wait_ack_message |-> NULL, serial |-> <<0, 0>>,
     blocked |-> FALSE, age |-> 0, noop |-> FALSE]

NoConn ==
    [alloc |-> FALSE, flags |-> {}, remote |-> NULL, pub |-> FALSE,
     writer_msg |-> NULL, reader_state |-> CH_RD_START, shutdown_tasks |-> 0,
     delete_remote |-> NULL, age |-> 0, slot |-> NoMsg]

\* libuv's side of a connection: pending requests and running timers.
NoUv ==
    [connect |-> FALSE, write |-> FALSE, wsend |-> 0, hs |-> FALSE,
     send_timeout |-> FALSE, connect_timeout |-> FALSE, closing |-> 0,
     acks |-> {}, stash |-> <<>>]

(***************************************************************************)
(* Small helpers on the world record.                                      *)
(***************************************************************************)
\* a uint32_t is kept as <<high, low>> halves of 16 bits each, since the
\* model checker's integers are 32 bit signed
Half == 2 ^ (SerialWidth \div 2)

\* config.MAX_MSG_SIZE, its default
CH_MAX_MSG_SIZE == 1024 * 1024 * 100

\* a uint32_t in halves is greater than the number n
Greater(x, n) == x[1] > n \div Half \/ (x[1] = n \div Half /\ x[2] > n % Half)

\* header_len + data_len of a wire message as a number: the high part is
\* Half or more when the sum does not fit into a uint32_t
Sum(h, d) == <<d[1] + (d[2] + h) \div Half, (d[2] + h) % Half>>

\* uint32_t total_wire_msg_size = msg->header_len + msg->data_len
total_wire_msg_size(h, d) == <<Sum(h, d)[1] % Half, Sum(h, d)[2]>>

\* _ch_rd_verify_msg
_ch_rd_verify_msg(type, h, d) ==
    IF Greater(total_wire_msg_size(h, d), CH_MAX_MSG_SIZE) THEN CH_ENOMEM
    ELSE IF type \cap {CH_MSG_ACK, CH_MSG_NOOP} # {}
         THEN IF h # 0 \/ d # <<0, 0>> THEN CH_PROTOCOL_ERROR
              ELSE IF CH_MSG_REQ_ACK \in type THEN CH_PROTOCOL_ERROR
              ELSE CH_SUCCESS
         ELSE CH_SUCCESS

\* qs_enqueue_m on the circular list whose tail the queue pointer is:
\* next(item) = next(queue); next(queue) = item; queue = item.  For an item
\* that is in the list already this cuts the list: what followed the item is
\* no longer reached from the queue pointer.
Enqueued(s, m) ==
    IF \A i \in DOMAIN s : s[i] # m THEN Append(s, m)
    ELSE IF s[Len(s)] = m THEN <<m>>
    ELSE SubSeq(s, 1, CHOOSE i \in DOMAIN s : s[i] = m)

\* ch_msg_enqueue (qs_enqueue_m): at the end of the intrusive queue.  Its
\* assert(next(item) == NULL) is compiled out with NDEBUG; hist.asserted
\* records that a build with assertions would have stopped.
ch_msg_enqueue(w, r, q, m) ==
    [w EXCEPT !.remote[r][q] = Enqueued(@, m), !.msg[m].next = TRUE,
              !.hist.asserted = @ \/ w.msg[m].next]

\* ch_msg_dequeue (qs_dequeue_m): from the front of the intrusive queue
ch_msg_dequeue(w, r, q) ==
    [w EXCEPT !.remote[r][q] = Tail(@),
              !.msg[Head(w.remote[r][q])].next = FALSE]

\* ch_rm_find with the key of a connection (ch_rm_init_from_conn, key = 1):
\* the one Remote of the model is found iff the connection carries the
\* peer's public port (outgoing, or incoming after the handshake).
ch_rm_find_conn(w, c) ==
    IF w.conn[c].pub THEN w.protocol.remotes ELSE NULL

FreeConns(w) == {c \in Conns : ~w.conn[c].alloc}
FreeRemotes(w) == {r \in Remotes : ~w.remote[r].alloc}
ch_alloc_conn(w) == IF FreeConns(w) = {} THEN NULL ELSE CHOOSE c \in FreeConns(w) : TRUE
ch_alloc_remote(w) == IF FreeRemotes(w) = {} THEN NULL ELSE CHOOSE r \in FreeRemotes(w) : TRUE

(***************************************************************************)
(* History: which send a callback belongs to and what had happened to the  *)
(* message by then.                                                        *)
(***************************************************************************)
\* ch_chirp_send or ch_chirp_send_ts takes a user's message: the send gets
\* the next number
Accept(w, m) ==
    LET k == w.hist.nsends + 1
    IN  [w EXCEPT !.hist.nsends = k, !.hist.sendno[m] = k,
                  !.hist.wconn[m] = NULL,
                  !.hist.wr[m] = "no", !.hist.acked[m] = FALSE]

\* the sends chirp has accepted and that have had no callback yet
InUseIn(w, m) ==
    w.hist.sendno[m] # 0 /\ w.hist.cbcount[w.hist.sendno[m]] = 0

\* s without its element x
Without(s, x) == SelectSeq(s, LAMBDA y : y # x)

\* the elements of s before x
Before(s, x) ==
    {s[i] : i \in {j \in DOMAIN s : \A l \in 1..j : s[l] # x}}

\* m leaves the data queue without being written
Drop(w, m) == [w EXCEPT !.hist.enq = Without(@, m)]

\* the user's send callback is called: what the send had gone through
LogCallback(w, m, status) ==
    LET k == w.hist.sendno[m]
    IN  [w EXCEPT !.hist.cbcount[k] = @ + 1,
                  !.hist.cbs = @ \cup {[k |-> k, m |-> m, status |-> status,
                                        wr |-> w.hist.wr[m],
                                        acked |-> w.hist.acked[m],
                                        used |-> CH_MSG_USED \in w.msg[m].flags,
                                        first |-> w.hist.cbcount[k] = 0]},
                  !.hist.wconn[m] = NULL,
                  !.hist.wr[m] = "no", !.hist.acked[m] = FALSE]

\* what goes on the wire for the Remote: the serial of this message and of
\* the one before it, and the data messages that ch_wr_send had enqueued
\* before this one and that have neither been written nor failed
NoWire == [prev |-> <<>>, last |-> <<>>, early |-> {}]

LogWire(w, r, m, serial) ==
    [prev |-> w.hist.wire.last, last |-> serial,
     early |-> IF IsUser(m) THEN Before(w.hist.enq, m) ELSE {}]

\* a dereference of conn->remote: undefined if the Remote was freed
Deref(w, c) ==
    IF c \in w.hist.dangling THEN [w EXCEPT !.hist.uaf = TRUE] ELSE w

\* a shutdown that takes no connection for the Remote's own
NeverOwn(w, r, c) == FALSE

\* remote->conn == conn
OwnConn(w, r, c) == w.remote[r].conn = c

RECURSIVE ch_chirp_send(_, _, _, _)
RECURSIVE ch_wr_send(_, _, _, _)
RECURSIVE ch_wr_process_queues(_, _, _)
RECURSIVE ch_cn_abort_one_message(_, _, _, _)
RECURSIVE ch_cn_shutdown(_, _, _, _)
RECURSIVE ch_chirp_finish_message(_, _, _, _, _)
RECURSIVE send_cb(_, _, _, _, _)

\* _ch_chirp_ack_send_cb: the send callback of a connection's ack_msg
_ch_chirp_ack_send_cb(w, m, status) ==
    IF w.msg[m].release_cb
    THEN [w EXCEPT !.msg[m].release_cb = FALSE,
                   !.hist.released = @ + 1]
    ELSE w

\* what the user's send callback does with the message: it passes it to
\* ch_chirp_send again if it is in u
UserCallback(w, m, u) ==
    IF m \in u /\ ~InUseIn(w, m) /\ w.hist.nsends < w.hist.lim.sends
    THEN ch_chirp_send(Accept(w, m), m, "user", u)
    ELSE w

\* cb(chirp, msg, status): a user's send callback or the callback of an ACK
send_cb(w, kind, m, status, u) ==
    IF kind = "ack" THEN _ch_chirp_ack_send_cb(w, m, status)
    ELSE UserCallback(LogCallback(w, m, status), m, u)

\* the callback stays set
KeepSendCb(w, m) == w

\* msg->_send_cb = NULL, before the callback is called
ClearSendCb(w, m) == [w EXCEPT !.msg[m].send_cb = "NULL"]

\* if (msg->_send_cb != NULL) { cb = msg->_send_cb; msg->_send_cb = NULL;
\* cb(chirp, msg, status); }, as in ch_chirp_finish_message,
\* ch_cn_abort_one_message and _ch_pr_abort_all_messages
CallSendCb(w, m, status, u) ==
    IF w.msg[m].send_cb # "NULL"
    THEN send_cb(ClearSendCb(w, m), w.msg[m].send_cb, m, status, u)
    ELSE w

\* an increment of the low half only
Inc32NoCarry(s) == <<s[1], (s[2] + 1) % Half>>

\* remote->serial += 1 on a uint32_t, kept as <<high, low>> halves of 16
\* bits each (the checker's integers are 32 bit signed)
Inc32(s) ==
    IF s[2] = Half - 1 THEN <<(s[1] + 1) % Half, 0>> ELSE <<s[1], s[2] + 1>>

\* ch_wr_write
ch_wr_write(w, c, m) ==
    LET r == w.conn[c].remote
        serial == Inc32(w.remote[r].serial)
    IN  [w EXCEPT !.conn[c].writer_msg = m,
                  !.uv[c].send_timeout = TRUE,
                  !.remote[r].serial = serial,
                  !.uv[c].write = TRUE,
                  !.uv[c].wsend = IF IsUser(m) THEN w.hist.sendno[m] ELSE 0,
                  !.uv[c].acks = IF CH_MSG_REQ_ACK \in w.msg[m].type
                                 THEN @ \cup {<<m, w.hist.sendno[m]>>} ELSE @,
                  !.hist.wr = IF IsUser(m) THEN [@ EXCEPT ![m] = "started"] ELSE @,
                  !.hist.wconn = IF IsUser(m) THEN [@ EXCEPT ![m] = c] ELSE @,
                  !.hist.enq = Without(@, m),
                  !.hist.wire = LogWire(w, r, m, serial)]

\* ch_pr_debounce_connection
ch_pr_debounce_connection(w, c) ==
    LET r == ch_rm_find_conn(w, c)
    IN  IF r = NULL THEN w
        ELSE [w EXCEPT
                !.protocol.reconnect_timeout =
                    IF w.protocol.reconnect_remotes = <<>> THEN TRUE ELSE @,
                !.remote[r].blocked = TRUE,
                !.hist.debounced = @ \cup {r},
                !.protocol.reconnect_remotes =
                    IF w.remote[r].blocked THEN @ ELSE <<r>> \o @]

\* a shutdown that closes no handle
NoClosing(w, c) == w

\* _ch_cn_closing: uv_close of every initialised handle of the connection;
\* closing the handles stops their timers and cancels a pending connect.
_ch_cn_closing(w, c) ==
    LET f == w.conn[c].flags
        n == (IF CH_CN_INIT_READER_WRITER \in f THEN 1 ELSE 0)
             + (IF CH_CN_INIT_CLIENT \in f THEN 1 ELSE 0)
             + (IF CH_CN_INIT_CONNECT_TIMEOUT \in f THEN 1 ELSE 0)
    IN  [w EXCEPT !.conn[c].flags = @ \ {CH_CN_CONNECTED,
                                         CH_CN_INIT_READER_WRITER,
                                         CH_CN_INIT_CLIENT,
                                         CH_CN_INIT_CONNECT_TIMEOUT},
                  !.conn[c].shutdown_tasks = @ + n,
                  !.uv[c].send_timeout = FALSE,
                  !.uv[c].connect_timeout = FALSE,
                  !.uv[c].connect = FALSE,
                  !.uv[c].closing = n,
                  !.uv[c].stash = <<>>,
                  !.conn[c].slot = NoMsg,
                  !.hist.held[c] = 0,
                  !.ichirp.orphans = IF w.conn[c].slot # NoMsg THEN @ + 1 ELSE @]

\* ch_cn_shutdown up to the messages it finishes: CH_CN_SHUTTING_DOWN,
\* ch_pr_debounce_connection, the connection leaves handshake_conns,
\* old_connections and its Remote, whose wait_ack_message and control queue
\* are reset
ShutdownStart(w, c, reason) ==
    LET r == w.conn[c].remote
        m == w.conn[c].writer_msg
        wam == IF r # NULL THEN w.remote[r].wait_ack_message ELSE NULL
        head == IF r # NULL /\ w.remote[r].msg_queue # <<>>
                THEN Head(w.remote[r].msg_queue) ELSE NULL
        Flag(x) == [x EXCEPT !.conn[c].flags = @ \cup {CH_CN_SHUTTING_DOWN}]
        Debounce(x) ==
            ch_pr_debounce_connection(IF r # NULL THEN Deref(x, c) ELSE x, c)
        Disassociate(x) ==
            [x EXCEPT !.protocol.handshake_conns = @ \ {c},
                      !.protocol.old_connections = @ \ {c},
                      !.conn[c].remote = NULL,
                      !.hist.shut = @ \cup {[c |-> c, wam |-> wam, msg |-> m,
                                             head |-> head, reason |-> reason]}]
        ClearRemote(x) ==
            IF r # NULL
            THEN [x EXCEPT !.remote[r].wait_ack_message = NULL,
                           !.remote[r].conn =
                               IF OwnConn(x, r, c) THEN NULL ELSE @,
                           !.remote[r].cntl_msg_queue = <<>>]
            ELSE x
    IN  ClearRemote(Disassociate(Debounce(Flag(w))))

\* the end of ch_cn_shutdown: the close accounting and _ch_cn_closing
ShutdownEnd(w, c) ==
    _ch_cn_closing(
        IF CH_CHIRP_CLOSING \in w.ichirp.flags
        THEN [w EXCEPT !.conn[c].flags = @ \cup {CH_CN_DO_CLOSE_ACCOUTING},
                       !.ichirp.closing_tasks = @ + 1,
                       !.hist.counted = TRUE]
        ELSE w, c)

\* uv_tcp_connect returns an error
ConnectFails(w) == w.hist.syncfails > 0

\* the reconnect timer is still to fire for the Remote
Debounced(w, r) == r \in w.hist.debounced

\* _ch_wr_connect (the timer calls and uv_tcp_init succeed; ch_alloc fails
\* when the pool of connection objects is used up; uv_tcp_connect fails at
\* once while hist.syncfails is not used up).  Of the ch_cn_shutdown(conn,
\* CH_CANNOT_CONNECT) of a failed uv_tcp_connect, whose connection has no
\* message and whose Remote waits for no ACK, the queued message it aborts is
\* left to ch_wr_process_queues: its send callback finds the Remote without
\* connection and the new connection shutting down in either order.
_ch_wr_connect(w, r) ==
    LET c == ch_alloc_conn(w)
        Start(x) ==
            [x EXCEPT !.remote[r].conn = c,
                      !.conn[c] = [NoConn EXCEPT
                           !.alloc = TRUE, !.remote = r, !.pub = TRUE,
                           !.flags = {CH_CN_INIT_CONNECT_TIMEOUT,
                                      CH_CN_INIT_CLIENT}],
                      !.uv[c] = [NoUv EXCEPT !.connect_timeout = TRUE],
                      !.hist.early = IF Debounced(w, r) THEN @ \cup {r}
                                     ELSE @]
    IN  IF c = NULL THEN w
        ELSE IF ConnectFails(w)
             THEN ShutdownEnd(
                      ShutdownStart(
                          [Start(w) EXCEPT !.hist.syncfails = @ - 1],
                          c, CH_CANNOT_CONNECT), c)
             ELSE [Start(w) EXCEPT !.uv[c].connect = TRUE]

\* a dispatcher that does not look at wait_ack_message
NeverWaits(w, r) == TRUE

\* remote->wait_ack_message == NULL: no data message awaits its ACK
NoWaitAck(w, r) == w.remote[r].wait_ack_message = NULL

\* ch_msg_dequeue(&remote->msg_queue, &msg); remote->wait_ack_message = msg;
\* ch_wr_write(conn, msg)
WriteWithAck(w, r, c, m) ==
    ch_wr_write([ch_msg_dequeue(w, r, "msg_queue") EXCEPT
                     !.remote[r].wait_ack_message = m], c, m)

\* a dispatcher that takes the control queue only when no data message is
\* queued
DataFirst(w, r) ==
    w.remote[r].cntl_msg_queue # <<>> /\ w.remote[r].msg_queue = <<>>

\* a dispatcher that takes every writer for free
NeverBusy(w, c) == FALSE

\* conn->writer.msg != NULL
WriterBusy(w, c) == w.conn[c].writer_msg # NULL

\* remote->cntl_msg_queue != NULL
ControlFirst(w, r) == w.remote[r].cntl_msg_queue # <<>>

\* the dispatcher hands m to ch_wr_write: the queues it has found
LogDispatch(w, r, m) ==
    [w EXCEPT !.hist.wrote = @ \cup
        {[m |-> m, r |-> r, cntl |-> w.remote[r].cntl_msg_queue,
          queue |-> w.remote[r].msg_queue,
          wam |-> w.remote[r].wait_ack_message,
          flags |-> w.conn[w.remote[r].conn].flags,
          writer |-> w.conn[w.remote[r].conn].writer_msg]}]

\* ch_wr_process_queues
ch_wr_process_queues(w, r, u) ==
    LET rm == w.remote[r]
        c == rm.conn
    IN  IF c = NULL
        THEN IF rm.blocked THEN w
             ELSE IF rm.msg_queue # <<>> \/ rm.cntl_msg_queue # <<>>
                  THEN IF ch_alloc_conn(w) = NULL \/ ConnectFails(w)
                       THEN ch_cn_abort_one_message(
                                _ch_wr_connect(w, r), r,
                                IF ch_alloc_conn(w) = NULL THEN CH_ENOMEM
                                ELSE CH_CANNOT_CONNECT, u)
                       ELSE _ch_wr_connect(w, r)
                  ELSE w
        ELSE IF CH_CN_CONNECTED \notin w.conn[c].flags
                \/ CH_CN_SHUTTING_DOWN \in w.conn[c].flags
             THEN w
             ELSE IF WriterBusy(w, c) THEN w
             ELSE IF ControlFirst(w, r)
                  THEN ch_wr_write(ch_msg_dequeue(
                                       LogDispatch(w, r,
                                                   Head(rm.cntl_msg_queue)),
                                       r, "cntl_msg_queue"), c,
                                   Head(rm.cntl_msg_queue))
             ELSE IF rm.msg_queue # <<>>
                  THEN IF w.ichirp.SYNCHRONOUS
                       THEN IF NoWaitAck(w, r)
                            THEN WriteWithAck(
                                     LogDispatch(w, r, Head(rm.msg_queue)),
                                     r, c, Head(rm.msg_queue))
                            ELSE w
                       ELSE ch_wr_write(ch_msg_dequeue(
                                            LogDispatch(w, r,
                                                        Head(rm.msg_queue)),
                                            r, "msg_queue"), c,
                                        Head(rm.msg_queue))
             ELSE w

\* ch_cn_abort_one_message
ch_cn_abort_one_message(w, r, error, u) ==
    LET rm == w.remote[r]
        q == IF rm.cntl_msg_queue # <<>> THEN "cntl_msg_queue"
             ELSE IF rm.msg_queue # <<>> THEN "msg_queue" ELSE "none"
    IN  IF q = "none" THEN w
        ELSE CallSendCb(Drop(ch_msg_dequeue(w, r, q), Head(rm[q])),
                        Head(rm[q]), error, u)

\* uv_timer_stop(&conn->writer.send_timeout)
StopSendTimeout(w, c) == [w EXCEPT !.uv[c].send_timeout = FALSE]

\* ch_chirp_finish_message, the message has both flags: it is finished
FinishBoth(w, c, m, status, u) ==
    CallSendCb(StopSendTimeout(
                   [w EXCEPT !.msg[m].flags =
                                 @ \ (CH_MSG_FAILURE \cup {CH_MSG_USED})], c),
               m, status, u)

\* ch_chirp_finish_message, the end: the queues of the connection's Remote,
\* or after a shutdown of the Remote that has the connection's address
FinishQueues(w, c, u) ==
    LET r == IF w.conn[c].remote # NULL THEN w.conn[c].remote
             ELSE ch_rm_find_conn(w, c)
    IN  IF r # NULL THEN ch_wr_process_queues(w, r, u) ELSE w

\* ch_chirp_finish_message
ch_chirp_finish_message(w, c, m, status, u) ==
    FinishQueues(IF CH_MSG_FAILURE \subseteq w.msg[m].flags
                 THEN FinishBoth(w, c, m, status, u) ELSE w,
                 c, u)

\* msg->_flags |= CH_MSG_FAILURE; ch_chirp_finish_message(chirp, conn, msg,
\* reason)
FailMessage(w, c, m, reason, u) ==
    ch_chirp_finish_message([w EXCEPT !.msg[m].flags = @ \cup CH_MSG_FAILURE],
                            c, m, reason, u)

\* wam == NULL && msg == NULL: the shutdown has finished no message
NoneFinished(wam, m) == wam = NULL /\ m = NULL

\* ch_cn_shutdown: the message the Remote awaits the ACK of fails
FinishWam(w, c, wam, reason, u) ==
    IF wam # NULL THEN FailMessage(w, c, wam, reason, u) ELSE w

\* ch_cn_shutdown: the message of the writer fails, unless it is the one above
FinishMsg(w, c, wam, m, reason, u) ==
    IF m # NULL /\ m # wam THEN FailMessage(w, c, m, reason, u) ELSE w

\* ch_cn_shutdown: no message has failed, a queued message is aborted
AbortOne(w, r, wam, m, reason, u) ==
    IF NoneFinished(wam, m) /\ r # NULL
    THEN ch_cn_abort_one_message(w, r, reason, u)
    ELSE w

\* a shutdown that does not look at CH_CN_SHUTTING_DOWN
NotShuttingDown(w, c) == FALSE

\* conn->flags & CH_CN_SHUTTING_DOWN
ShuttingDown(w, c) == CH_CN_SHUTTING_DOWN \in w.conn[c].flags

\* ch_cn_shutdown returns CH_IN_PRORESS: the call is recorded
InProgress(w, c) == [w EXCEPT !.hist.again = @ \cup {c}]

\* ch_cn_shutdown
ch_cn_shutdown(w, c, reason, u) ==
    IF ShuttingDown(w, c) THEN InProgress(w, c)
    ELSE
    LET r == w.conn[c].remote
        m == w.conn[c].writer_msg
        wam == IF r # NULL THEN w.remote[r].wait_ack_message ELSE NULL
    IN  ShutdownEnd(
            AbortOne(
                FinishMsg(
                    FinishWam(ShutdownStart(w, c, reason), c, wam, reason, u),
                    c, wam, m, reason, u),
                r, wam, m, reason, u), c)

\* _ch_wr_enqeue_probe_if_needed: age 1 stands for a timestamp older than
\* REUSE_TIME, which is older than 3/4 REUSE_TIME too
_ch_wr_enqeue_probe_if_needed(w, r) ==
    LET noop == NoopOf(r)
        InitNoop(x) ==
            IF ~x.remote[r].noop
            THEN [x EXCEPT !.remote[r].noop = TRUE,
                           !.msg[noop] = [ch_msg_init EXCEPT
                                          !.type = {CH_MSG_NOOP}]]
            ELSE x
        Enqueue(x) ==
            IF CH_MSG_USED \notin x.msg[noop].flags /\ ~x.msg[noop].next
            THEN ch_msg_enqueue(x, r, "cntl_msg_queue", noop)
            ELSE x
    IN  IF w.remote[r].age >= 1 THEN Enqueue(InitNoop(w)) ELSE w

\* the NOOP of the Remote is in its control queue or is being written
Probing(w, r) ==
    \/ \E i \in DOMAIN w.remote[r].cntl_msg_queue :
          w.remote[r].cntl_msg_queue[i] = NoopOf(r)
    \/ \E c \in Conns : w.conn[c].alloc /\ w.conn[c].writer_msg = NoopOf(r)

\* ch_wr_send is about to enqueue a message for a Remote whose timestamp is
\* older than 3/4 REUSE_TIME: is the probe there
LogProbe(w, r) ==
    IF w.remote[r].age >= 1 /\ ~Probing(w, r)
    THEN [w EXCEPT !.hist.unprobed = @ \cup {r}] ELSE w

\* the Remote of ch_rm_init_from_msg / ch_rm_init_from_conn, inserted
NewRemote(w, r) ==
    [w EXCEPT !.remote[r] = [NoRemote EXCEPT !.alloc = TRUE,
                                             !.serial = w.ichirp.rand],
              !.protocol.remotes = r,
              !.hist.wire = NoWire]

\* ch_wr_send: msg->_send_cb = send_cb; msg->_flags |= CH_MSG_USED
Use(w, m, cb) ==
    [w EXCEPT !.msg[m].send_cb = cb, !.msg[m].flags = @ \cup {CH_MSG_USED}]

\* ch_wr_send: the Remote of the message, found or allocated (NULL: ch_alloc
\* has failed)
SendRemote(w) ==
    IF w.protocol.remotes # NULL THEN w.protocol.remotes
    ELSE ch_alloc_remote(w)

\* ch_wr_send: the probe and the message are enqueued for the Remote r
Enqueue(w, r, m) ==
    LET x == LogProbe(_ch_wr_enqeue_probe_if_needed(
                          IF w.protocol.remotes # NULL THEN w
                          ELSE NewRemote(w, r), r), r)
    IN  IF x.msg[m].type \cap {CH_MSG_ACK, CH_MSG_NOOP} # {}
        THEN ch_msg_enqueue(x, r, "cntl_msg_queue", m)
        ELSE [ch_msg_enqueue(x, r, "msg_queue", m) EXCEPT
                  !.hist.enq = Append(Without(@, m), m)]

\* ch_wr_send
ch_wr_send(w, m, cb, u) ==
    LET closing ==
            w.ichirp.flags \cap {CH_CHIRP_CLOSING, CH_CHIRP_CLOSED} # {}
    IN  IF closing \/ SendRemote(w) = NULL
        THEN IF cb # "NULL"
             THEN send_cb(IF closing THEN w ELSE Use(w, m, cb), cb, m,
                          IF closing THEN CH_SHUTDOWN ELSE CH_ENOMEM, u)
             ELSE IF closing THEN w ELSE Use(w, m, cb)
        ELSE ch_wr_process_queues(
                 Enqueue(Use(w, m, cb), SendRemote(w), m), SendRemote(w), u)

AlwaysReqAck(w) == {CH_MSG_REQ_ACK}

\* ch_chirp_send: the type the message gets
SendType(w) == IF w.ichirp.SYNCHRONOUS THEN {CH_MSG_REQ_ACK} ELSE {}

\* ch_chirp_send
ch_chirp_send(w, m, cb, u) ==
    ch_wr_send([w EXCEPT !.msg[m].type = SendType(w)], m, cb, u)

\* _ch_wr_write_finish
_ch_wr_write_finish(w, c, u) ==
    LET m == w.conn[c].writer_msg
        r == w.conn[c].remote
        Done(x) ==
            [x EXCEPT
               !.msg[m].flags = @ \cup {CH_MSG_WRITE_DONE} \cup
                   (IF CH_MSG_REQ_ACK \notin x.msg[m].type
                    THEN {CH_MSG_ACK_RECEIVED} ELSE {}),
               !.conn[c].writer_msg = NULL,
               !.conn[c].age = 0,
               !.hist.wr = IF IsUser(m) /\ x.uv[c].wsend = x.hist.sendno[m]
                              /\ x.hist.cbcount[x.hist.sendno[m]] = 0
                           THEN [@ EXCEPT ![m] = "done"] ELSE @]
        Stamp(x) ==
            IF r # NULL THEN [Deref(x, c) EXCEPT !.remote[r].age = 0] ELSE x
    IN  ch_chirp_finish_message(Stamp(Done(w)), c, m, CH_SUCCESS, u)

\* _ch_wr_write_data_cb with _ch_wr_check_write_error
_ch_wr_write_data_cb(w, c, status, u) ==
    IF status # CH_SUCCESS
    THEN ch_cn_shutdown(w, c, CH_PROTOCOL_ERROR, u)
    ELSE _ch_wr_write_finish(w, c, u)

(***************************************************************************)
(* Reader, protocol and chirp.                                             *)
(***************************************************************************)
RECURSIVE _ch_pr_abort_all_messages(_, _, _, _)
RECURSIVE ShutdownAll(_, _, _, _)

\* _ch_pr_abort_all_messages
_ch_pr_abort_all_messages(w, r, error, u) ==
    IF w.remote[r].msg_queue = <<>>
    THEN [w EXCEPT !.remote[r].cntl_msg_queue = <<>>]
    ELSE _ch_pr_abort_all_messages(
             CallSendCb(Drop(ch_msg_dequeue(w, r, "msg_queue"),
                             Head(w.remote[r].msg_queue)),
                        Head(w.remote[r].msg_queue), error, u),
             r, error, u)

\* ch_cn_shutdown for every connection of a set that is still in the tree sel
ShutdownAll(w, sel, error, u) ==
    IF w.protocol[sel] = {} THEN w
    ELSE ShutdownAll(ch_cn_shutdown(w, CHOOSE x \in w.protocol[sel] : TRUE,
                                    error, u),
                     sel, error, u)

\* ch_rm_free
ch_rm_free(w, r) ==
    [w EXCEPT !.remote[r] = NoRemote,
              !.msg[NoopOf(r)] = ch_msg_init,
              !.hist.debounced = @ \ {r},
              !.hist.dangling = @ \cup {c \in Conns : w.conn[c].alloc
                                                     /\ w.conn[c].remote = r}]

\* a close callback that counts every connection
AlwaysCounted(w, c) == TRUE

\* conn->flags & CH_CN_DO_CLOSE_ACCOUTING
Counted(w, c) == CH_CN_DO_CLOSE_ACCOUTING \in w.conn[c].flags

\* ch_cn_close_cb
ch_cn_close_cb(w, c) ==
    LET Accounting(x) ==
            IF Counted(x, c)
            THEN [x EXCEPT !.ichirp.closing_tasks = @ - 1]
            ELSE x
        FreeRemote(x) ==
            IF x.conn[c].delete_remote # NULL
            THEN ch_rm_free(x, x.conn[c].delete_remote)
            ELSE x
        Free(x) ==
            [x EXCEPT !.conn[c] = NoConn, !.uv[c] = NoUv,
                      !.msg[AckOf(c)] = ch_msg_init,
                      !.hist.dangling = @ \ {c}]
        Last(x) ==
            IF x.conn[c].shutdown_tasks < 1
            THEN Free(FreeRemote(Accounting(x)))
            ELSE x
    IN  Last([w EXCEPT !.conn[c].shutdown_tasks = @ - 1,
                       !.uv[c].closing = @ - 1])

\* ch_pr_conn_start: ch_cn_init, uv_read_start and the first ch_rd_read,
\* which writes our handshake (reader state CH_RD_START)
ch_pr_conn_start(w, c) ==
    [w EXCEPT !.conn[c].flags = @ \cup {CH_CN_INIT_READER_WRITER},
              !.conn[c].age = 0,
              !.conn[c].reader_state = CH_RD_HANDSHAKE,
              !.uv[c].hs = TRUE]

\* libchirp-config.h leaves CH_ENABLE_ASSERTS undefined: A(condition,
\* message) is (void) 0 and its condition is not evaluated
CH_ENABLE_ASSERTS == FALSE

\* a handshake that leaves the new connection where it is in old_connections
KeepOld(w, r, c) ==
    w.protocol.old_connections \cup
    (IF w.remote[r].conn # NULL /\ w.remote[r].conn # c
     THEN {w.remote[r].conn} ELSE {})

\* _ch_rd_handshake: old_connections once the connection c has taken the
\* place of remote->conn: c is deleted from it and the old connection of the
\* Remote, if it is another one, is inserted
Replaced(w, r, c) ==
    (w.protocol.old_connections \ {c}) \cup
    (IF w.remote[r].conn # NULL /\ w.remote[r].conn # c
     THEN {w.remote[r].conn} ELSE {})

\* _ch_rd_handshake; the ch_cn_delete of the connection from handshake_conns
\* is the condition of an A(...)
_ch_rd_handshake(w, c, complete, u) ==
    LET Connected(x) ==
            [x EXCEPT !.uv[c].connect_timeout = FALSE,
                      !.conn[c].flags = @ \cup {CH_CN_CONNECTED},
                      !.protocol.handshake_conns =
                          IF CH_CN_INCOMING \in x.conn[c].flags
                             /\ CH_ENABLE_ASSERTS
                          THEN @ \ {c} ELSE @]
        Replace(x, r) ==
            [x EXCEPT
               !.conn[c].remote = r,
               !.remote[r].conn = c,
               !.protocol.old_connections = Replaced(x, r, c),
               !.msg[AckOf(c)].type = {CH_MSG_ACK},
               !.hist.dangling = @ \ {c}]
        Found(x, r) == ch_wr_process_queues(Replace(x, r), r, u)
        Find(x) ==
            IF x.protocol.remotes # NULL THEN Found(x, x.protocol.remotes)
            ELSE IF ch_alloc_remote(x) = NULL
                 THEN ch_cn_shutdown(x, c, CH_ENOMEM, u)
                 ELSE Found(NewRemote(x, ch_alloc_remote(x)),
                            ch_alloc_remote(x))
        Verify(x) ==
            IF ~complete THEN ch_cn_shutdown(x, c, CH_PROTOCOL_ERROR, u)
            ELSE Find([x EXCEPT !.conn[c].pub = TRUE])
    IN  Verify(Connected(w))

\* conn->timestamp = now; conn->remote->timestamp = now, when there is one
Timestamp(w, c) ==
    IF w.conn[c].remote # NULL
    THEN [Deref(w, c) EXCEPT !.conn[c].age = 0,
                             !.remote[w.conn[c].remote].age = 0]
    ELSE [w EXCEPT !.conn[c].age = 0]

\* _ch_rd_handle_msg: the user's receive callback gets the message m of the
\* slot and keeps it
_ch_rd_handle_msg(w, c, m) ==
    Timestamp([w EXCEPT !.conn[c].reader_state = CH_RD_WAIT,
                        !.conn[c].slot = m,
                        !.hist.held[c] = @ + 1,
                        !.hist.badrecv = @ \/ CH_MSG_ACK \in m.type
                                           \/ CH_MSG_NOOP \in m.type
                                           \/ CH_MSG_USED \in m.flags,
                        !.hist.nrecv = @ + 1], c)

\* pool->used_slots of the connection's buffer pool
used_slots(w, c) ==
    IF CH_MSG_HAS_SLOT \in w.conn[c].slot.flags THEN 1 ELSE 0

\* the message of the slot ch_bf_acquire returns, with the wire message
\* copied into it
SlotMsg(type) ==
    [type |-> type,
     flags |-> {CH_MSG_HAS_SLOT} \cup (IF CH_MSG_REQ_ACK \in type
                                       THEN {CH_MSG_SEND_ACK} ELSE {})]

AllToSlot(type) == "slot"

\* _ch_rd_read_step in the state CH_RD_WAIT: where a wire message goes
WireKind(type) ==
    IF CH_MSG_NOOP \in type THEN "noop"
    ELSE IF CH_MSG_ACK \in type THEN "ack"
    ELSE "slot"

\* ch_bf_is_exhausted
ch_bf_is_exhausted(w, c) == used_slots(w, c) >= MAX_SLOTS

NeverFull(w, c) == FALSE

\* ch_bf_acquire returns NULL: no slot is left
NoSlot(w, c) == ~(used_slots(w, c) < MAX_SLOTS)

KeepReading(w, c) == w

\* uv_read_stop(&conn->client); conn->flags |= CH_CN_STOPPED
StopStream(w, c) == [w EXCEPT !.conn[c].flags = @ \cup {CH_CN_STOPPED}]

\* _ch_rd_read_step in the state CH_RD_SLOT: ch_bf_acquire, one slot; the
\* bytes that are left go to conn->read_resume (_ch_pr_update_resume)
ReadSlot(w, c, type) ==
    IF NoSlot(w, c)
    THEN [StopStream(w, c) EXCEPT !.uv[c].stash = <<type>>]
    ELSE _ch_rd_handle_msg(w, c, SlotMsg(type))

\* _ch_rd_read_step, an ACK in the state CH_RD_WAIT
ReadAck(w, c, ack, u) ==
    LET r == w.conn[c].remote
        wam == w.remote[r].wait_ack_message
        Arrived(x) == [Deref(x, c) EXCEPT !.uv[c].acks = @ \ {ack}]
        Match(x) ==
            IF wam # NULL /\ wam = ack[1]
            THEN ch_chirp_finish_message(
                     [x EXCEPT
                        !.msg[wam].flags = @ \cup {CH_MSG_ACK_RECEIVED},
                        !.remote[r].wait_ack_message = NULL,
                        !.hist.acked[wam] =
                            (ack[2] = x.hist.sendno[wam]
                             /\ x.hist.cbcount[ack[2]] = 0)],
                     c, wam, CH_SUCCESS, u)
            ELSE x
    IN  Match(Arrived(w))

\* _ch_rd_read_step in the state CH_RD_WAIT, a message that was verified
Dispatch(w, c, input, u) ==
    IF WireKind(input.type) = "noop" THEN Timestamp(w, c)
    ELSE IF WireKind(input.type) = "ack" THEN ReadAck(w, c, input.ack, u)
    ELSE ReadSlot(w, c, input.type)

\* _ch_rd_read_step in the states CH_RD_HANDSHAKE and CH_RD_WAIT; input is
\* what the peer sent
_ch_rd_read_step(w, c, input, u) ==
    IF w.conn[c].reader_state = CH_RD_HANDSHAKE
    THEN [_ch_rd_handshake(w, c, input.kind = "hs", u) EXCEPT
              !.conn[c].reader_state = CH_RD_WAIT]
    ELSE IF _ch_rd_verify_msg(input.type, input.h, input.d) # CH_SUCCESS
    THEN ch_cn_shutdown(w, c, _ch_rd_verify_msg(input.type, input.h, input.d),
                        u)
    ELSE Dispatch([w EXCEPT !.hist.oversize =
                       @ \/ Greater(Sum(input.h, input.d), CH_MAX_MSG_SIZE)],
                  c, input, u)

\* _ch_pr_read_data_cb
_ch_pr_read_data_cb(w, c, input, u) ==
    IF CH_CN_SHUTTING_DOWN \in w.conn[c].flags THEN w
    ELSE IF input.kind = "eof" THEN ch_cn_shutdown(w, c, CH_PROTOCOL_ERROR, u)
    ELSE _ch_rd_read_step(w, c, input, u)

KeepStopped(w, c) == w

\* ch_pr_restart_stream with _ch_pr_resume
ch_pr_restart_stream(w, c) ==
    LET Resume(x) ==
            IF x.uv[c].stash # <<>>
            THEN ReadSlot([x EXCEPT !.uv[c].stash = <<>>], c, x.uv[c].stash[1])
            ELSE x
        Start(x) ==
            IF x.uv[c].stash = <<>>
            THEN [x EXCEPT !.conn[c].flags = @ \ {CH_CN_STOPPED}]
            ELSE x
    IN  Start(Resume(w))

\* ch_chirp_release_msg_slot for the slot of a connection that still exists
ch_chirp_release_msg_slot(w, c, u) ==
    LET SendAck(x) ==
            IF CH_CN_SHUTTING_DOWN \notin x.conn[c].flags
               /\ CH_MSG_SEND_ACK \in x.conn[c].slot.flags
            THEN ch_wr_send([x EXCEPT !.msg[AckOf(c)].release_cb = TRUE],
                            AckOf(c), "ack", u)
            ELSE [x EXCEPT !.hist.released = @ + 1]
        Release(x) ==
            IF x.conn[c].alloc /\ ch_bf_is_exhausted(x, c)
            THEN ch_pr_restart_stream([x EXCEPT !.conn[c].slot = NoMsg,
                                                !.hist.held[c] = @ - 1], c)
            ELSE [x EXCEPT !.ichirp.orphans = @ - 1]
        Called(x) == [x EXCEPT !.hist.rel = @ \cup {c},
                               !.hist.relcalls = @ + 1]
    IN  Release(SendAck(Called(w)))

\* the Remote is deleted: _ch_pr_abort_all_messages, ch_rm_delete and then
\* ch_cn_shutdown of its connection, whose last close callback frees the
\* Remote, or ch_rm_free at once (_ch_pr_gc_connections_cb blocks the Remote)
DeleteRemote(w, r, block, u) ==
    LET Delete(x) == [x EXCEPT !.protocol.remotes = NULL]
        Close(x) ==
            IF x.remote[r].conn # NULL
            THEN ch_cn_shutdown(
                     [x EXCEPT !.conn[x.remote[r].conn].delete_remote = r,
                               !.remote[r].blocked = @ \/ block],
                     x.remote[r].conn, CH_SHUTDOWN, u)
            ELSE ch_rm_free(x, r)
    IN  Close(Delete(_ch_pr_abort_all_messages(w, r, CH_SHUTDOWN, u)))

\* a collector that finds no connection old enough
NeverUnused(w, c) == FALSE

\* now - cn_elem->timestamp > delta: age 1 stands for a timestamp that is
\* more than REUSE_TIME old
Unused(w, c) == w.conn[c].age >= 1

\* _ch_pr_gc_connections_cb
_ch_pr_gc_connections_cb(w, u) ==
    LET RECURSIVE ShutdownOld(_, _)
        ShutdownOld(x, cs) ==
            IF cs = {} THEN x
            ELSE ShutdownOld(
                     ch_cn_shutdown(x, CHOOSE y \in cs : TRUE, CH_SHUTDOWN, u),
                     cs \ {CHOOSE y \in cs : TRUE})
        Remotes_(x) ==
            IF /\ x.protocol.remotes # NULL
               /\ ~x.remote[x.protocol.remotes].blocked
               /\ x.remote[x.protocol.remotes].age >= 1
            THEN DeleteRemote(x, x.protocol.remotes, TRUE, u)
            ELSE x
    IN  Remotes_(ShutdownOld(w, {c \in w.protocol.old_connections :
                                     Unused(w, c)}))

\* ch_pr_close_free_remotes(chirp, 0)
ch_pr_close_free_remotes(w, u) ==
    LET Remotes_(x) ==
            IF x.protocol.remotes # NULL
            THEN DeleteRemote(x, x.protocol.remotes, FALSE, u)
            ELSE x
        Reconnect(x) == [x EXCEPT !.protocol.reconnect_remotes = <<>>]
    IN  Reconnect(Remotes_(ShutdownAll(
            ShutdownAll(w, "old_connections", CH_SHUTDOWN, u),
            "handshake_conns", CH_SHUTDOWN, u)))

\* ch_pr_reconnect_remotes_cb
ch_pr_reconnect_remotes_cb(w, u) ==
    LET RECURSIVE Pop(_)
        Pop(x) ==
            IF x.protocol.reconnect_remotes = <<>> THEN x
            ELSE Pop(ch_wr_process_queues(
                         [x EXCEPT !.protocol.reconnect_remotes = Tail(@),
                                   !.remote[Head(x.protocol.reconnect_remotes)]
                                       .blocked = FALSE],
                         Head(x.protocol.reconnect_remotes), u))
    IN  Pop([w EXCEPT !.protocol.reconnect_timeout = FALSE,
                      !.hist.debounced = {}])

\* ch_wr_send_ts_cb
ch_wr_send_ts_cb(w, u) ==
    LET RECURSIVE Drain(_)
        Drain(x) ==
            IF x.ichirp.send_ts_queue = <<>> THEN x
            ELSE Drain(ch_chirp_send(
                           [x EXCEPT !.ichirp.send_ts_queue = Tail(@),
                                     !.msg[Head(x.ichirp.send_ts_queue)].next
                                         = FALSE],
                           Head(x.ichirp.send_ts_queue),
                           x.msg[Head(x.ichirp.send_ts_queue)].send_cb, u))
    IN  IF CH_CHIRP_CLOSING \in w.ichirp.flags THEN w ELSE Drain(w)

\* _ch_wr_connect_timeout_cb
_ch_wr_connect_timeout_cb(w, c, u) ==
    LET Stop(x) == [x EXCEPT !.uv[c].connect_timeout = FALSE]
        Queues(x) ==
            IF ch_rm_find_conn(x, c) # NULL
            THEN ch_wr_process_queues(x, ch_rm_find_conn(x, c), u)
            ELSE x
    IN  Queues(Stop(ch_cn_shutdown(w, c, CH_TIMEOUT, u)))

\* _ch_wr_connect_cb
_ch_wr_connect_cb(w, c, status, u) ==
    IF status = CH_SUCCESS THEN ch_pr_conn_start(w, c)
    ELSE ch_cn_shutdown(w, c, CH_CANNOT_CONNECT, u)

\* _ch_pr_new_connection_cb
_ch_pr_new_connection_cb(w) ==
    LET c == ch_alloc_conn(w)
    IN  IF CH_CHIRP_CLOSING \in w.ichirp.flags \/ c = NULL THEN w
        ELSE ch_pr_conn_start(
                 [w EXCEPT !.conn[c] = [NoConn EXCEPT
                               !.alloc = TRUE,
                               !.flags = {CH_CN_INIT_CLIENT, CH_CN_INCOMING}],
                           !.uv[c] = NoUv,
                           !.protocol.handshake_conns = @ \cup {c}],
                 c)

\* _ch_rd_handshake_cb
_ch_rd_handshake_cb(w, c, status, u) ==
    IF status # CH_SUCCESS THEN ch_cn_shutdown(w, c, CH_WRITE_ERROR, u) ELSE w

\* _ch_chirp_close_async_cb with ch_pr_stop
_ch_chirp_close_async_cb(w, u) ==
    [ch_pr_close_free_remotes(w, u) EXCEPT
         !.protocol.reconnect_timeout = FALSE,
         !.protocol.gc_timeout = FALSE,
         !.ichirp.closing_tasks = @ + ChirpHandles,
         !.ichirp.handles = ChirpHandles,
         !.ichirp.send_ts_async = FALSE,
         !.ichirp.close_check = TRUE]

(***************************************************************************)
(* The buffer pool of a connection's reader on its own.  A uint32_t is a   *)
(* pair <<high, low>> of 16 bit halves; slot ids count from 0.             *)
(***************************************************************************)
\* bit k of x
Bit32(x, k) ==
    IF k >= 16 THEN (x[1] \div 2 ^ (k - 16)) % 2 ELSE (x[2] \div 2 ^ k) % 2

\* x | (1 << k)
Or32(x, k) ==
    IF Bit32(x, k) = 1 THEN x
    ELSE IF k >= 16 THEN <<x[1] + 2 ^ (k - 16), x[2]>>
    ELSE <<x[1], x[2] + 2 ^ k>>

\* x & ~(1 << k)
AndNot32(x, k) ==
    IF Bit32(x, k) = 0 THEN x
    ELSE IF k >= 16 THEN <<x[1] - 2 ^ (k - 16), x[2]>>
    ELSE <<x[1], x[2] - 2 ^ k>>

\* x << s on a uint32_t, 0 <= s < 32
Shl32(x, s) ==
    IF s >= 16 THEN <<(x[2] % 2 ^ (32 - s)) * 2 ^ (s - 16), 0>>
    ELSE <<(x[1] % 2 ^ (16 - s)) * 2 ^ s + x[2] \div 2 ^ (16 - s),
           (x[2] % 2 ^ (16 - s)) * 2 ^ s>>

\* the position, from 1, of the least significant bit that is set
ch_lsb32(x) ==
    IF x = <<0, 0>> THEN 0
    ELSE 1 + CHOOSE k \in 0..31 :
                 Bit32(x, k) = 1 /\ \A j \in 0..(k - 1) : Bit32(x, j) = 0

\* ch_msb32: the position, from 1, of the most significant bit that is set
ch_msb32(x) ==
    LET bval == <<0, 1, 2, 2, 3, 3, 3, 3, 4, 4, 4, 4, 4, 4, 4, 4>>
        r16 == IF x[1] # 0 THEN 16 ELSE 0
        x16 == IF x[1] # 0 THEN x[1] ELSE x[2]
        r8 == IF x16 \div 256 # 0 THEN r16 + 8 ELSE r16
        x8 == IF x16 \div 256 # 0 THEN x16 \div 256 ELSE x16
        r4 == IF (x8 \div 16) % 16 # 0 THEN r8 + 4 ELSE r8
        x4 == IF (x8 \div 16) % 16 # 0 THEN x8 \div 16 ELSE x8
    IN  r4 + bval[x4 + 1]

\* no pool: the reader is not initialised
NoPool == [state |-> "none", conn |-> FALSE, refcnt |-> 0, max_slots |-> 0,
           used_slots |-> 0, free_slots |-> <<0, 0>>, used |-> {}]

\* the pool with reader->slot (the slot being filled, if any), the slots
\* whose message the user has and has not released, the slots whose message
\* the user was ever given, and what the calls have done
NoBf == [pool |-> NoPool, slot |-> {}, held |-> {}, given |-> {},
         calls |-> 0, frees |-> 0, uaf |-> FALSE, double |-> FALSE,
         acquired |-> {}]

\* ch_bf_init
ch_bf_init(max_slots) ==
    [state |-> "live", conn |-> TRUE, refcnt |-> 1, max_slots |-> max_slots,
     used_slots |-> 0,
     free_slots |-> Shl32(<<Half - 1, Half - 1>>, 32 - max_slots),
     used |-> {}]

\* ch_bf_acquire: the id of the slot it returns, if any
AcquiredSlot(pool) ==
    IF pool.used_slots < pool.max_slots
    THEN {32 - ch_msb32(pool.free_slots)}
    ELSE {}

\* ch_bf_acquire: the pool after it
ch_bf_acquire(pool) ==
    IF pool.used_slots < pool.max_slots
    THEN [pool EXCEPT
            !.used_slots = @ + 1,
            !.free_slots = AndNot32(@, ch_msb32(pool.free_slots) - 1),
            !.used = @ \cup {32 - ch_msb32(pool.free_slots)}]
    ELSE pool

\* a release that takes no slot for free
NeverInPool(pool, id) == FALSE

\* ch_bf_release: int in_pool = pool->free_slots & (1 << (31 - id))
InPool(pool, id) == Bit32(pool.free_slots, 31 - id) = 1

\* ch_bf_release
ch_bf_release(pool, id) ==
    IF InPool(pool, id) THEN pool
    ELSE [pool EXCEPT !.used_slots = @ - 1,
                      !.used = @ \ {id},
                      !.free_slots = Or32(@, 31 - id)]

\* ch_bf_free: the pool's memory is freed when the count is zero
ch_bf_free(pool) ==
    [pool EXCEPT !.refcnt = @ - 1,
                 !.state = IF pool.refcnt = 1 THEN "freed" ELSE @]

\* the calls are counted, and the pools that were freed
BfCall(b, pool) ==
    [b EXCEPT !.pool = pool, !.calls = @ + 1,
              !.frees = IF pool.state = "freed" THEN @ + 1 ELSE @,
              !.double = FALSE, !.acquired = {}]

(***************************************************************************)
(* The identity of the node and the serializer.  An identity is a sequence *)
(* of CH_ID_SIZE bytes, a buffer a sequence of bytes as they lie in        *)
(* memory, a uint16_t a number and a uint32_t a pair of 16 bit halves.     *)
(* The host is little endian.                                              *)
(***************************************************************************)
\* ichirp->identity after memset(ichirp, 0, sizeof(*ichirp))
ZeroId == [i \in 1..CH_ID_SIZE |-> 0]

\* ch_chirp_init: ichirp->identity from config.IDENTITY, random being what
\* ch_random_ints_as_bytes writes.  i counts from 0 as in the code.
chirp_identity(IDENTITY, random) ==
    LET RECURSIVE While(_)
        While(i) ==
            IF i < CH_ID_SIZE - 1 /\ IDENTITY[i + 1] = 0 THEN While(i + 1)
            ELSE i
    IN  IF IDENTITY[While(0) + 1] = 0 THEN random
        ELSE [ZeroId EXCEPT ![1] = IDENTITY[1]]

\* ch_chirp_get_identity: memcpy(id.data, chirp->_->identity, ...)
ch_chirp_get_identity(identity) == [i \in 1..CH_ID_SIZE |-> identity[i]]

\* a 16 bit value that is stored as it is
SameShort(v) == v

\* htons and ntohs on a little endian host: the two bytes change places
htons(v) == (v % 256) * 256 + (v \div 256)
ntohs(v) == (v % 256) * 256 + (v \div 256)

\* htonl and ntohl: the four bytes in reverse order
htonl(x) == <<htons(x[2]), htons(x[1])>>
ntohl(x) == <<ntohs(x[2]), ntohs(x[1])>>

\* *(uint16_t*) &buf[pos] = v and *(uint32_t*) &buf[pos] = x: the bytes in
\* memory, and the values read from them
Store16(v) == <<v % 256, v \div 256>>
Store32(x) == Store16(x[2]) \o Store16(x[1])
Load16(buf, pos) == buf[pos + 1] + 256 * buf[pos + 2]
Load32(buf, pos) == <<Load16(buf, pos + 2), Load16(buf, pos)>>

\* ch_sr_hs_to_buf
ch_sr_hs_to_buf(hs) == Store16(htons(hs.port)) \o hs.identity

\* ch_sr_buf_to_hs
ch_sr_buf_to_hs(buf) ==
    [port |-> ntohs(Load16(buf, 0)),
     identity |-> [i \in 1..CH_ID_SIZE |-> buf[2 + i]]]

\* ch_sr_msg_to_buf: CH_SR_WIRE_MESSAGE_LAYOUT has the identity at 0, the
\* serial at 16, the type at 20, header_len at 21 and data_len at 23
ch_sr_msg_to_buf(m, msg_serial) ==
    m.identity \o Store32(htonl(msg_serial)) \o <<m.type>>
        \o Store16(htons(m.header_len)) \o Store32(htonl(m.data_len))

\* ch_sr_buf_to_msg
ch_sr_buf_to_msg(buf) ==
    [identity |-> [i \in 1..CH_ID_SIZE |-> buf[i]],
     type |-> buf[CH_ID_SIZE + 5],
     header_len |-> ntohs(Load16(buf, CH_ID_SIZE + 5)),
     data_len |-> ntohl(Load32(buf, CH_ID_SIZE + 7)),
     serial |-> ntohl(Load32(buf, CH_ID_SIZE))]

(***************************************************************************)
(* The state machine.                                                      *)
(***************************************************************************)
\* how much the user and the peer do in one behaviour
\* header_len and data_len of a message without header and data
NoLen == [h |-> 0, d |-> <<0, 0>>]

\* nothing has been initialised or serialized
NoSr == [pc |-> "start", identity |-> <<>>, id |-> <<>>, buf |-> <<>>,
         hs |-> <<>>, msg |-> <<>>]

\* no call of ch_chirp_send with a message in use has been made
NotCalled == [called |-> FALSE, ret |-> CH_SUCCESS, changed |-> {}]

\* the limits of a behaviour with such a call
UsedLimits ==
    [sends |-> PeerSends, recv |-> MaxRecv, accepts |-> MaxAccepts,
     events |-> MaxEvents, lens |-> {NoLen}]

Limits ==
    {[sends |-> MaxSends, recv |-> MaxRecv, accepts |-> MaxAccepts,
      events |-> MaxEvents, lens |-> {NoLen}],
     [sends |-> PeerSends, recv |-> PeerRecv, accepts |-> MaxAccepts,
      events |-> PeerEvents, lens |-> {NoLen}]}

\* the limits of a behaviour whose peer sends wire headers with any of these
\* pairs of header_len and data_len: none, one byte, the largest values,
\* and the values around MAX_MSG_SIZE
VerifyLimits ==
    [sends |-> PeerSends, recv |-> MaxRecv, accepts |-> MaxAccepts,
     events |-> MaxEvents,
     lens |-> {[h |-> h, d |-> d] :
                 h \in {0, 1, Half - 1},
                 d \in {<<0, 0>>, <<0, 1>>,
                        <<CH_MAX_MSG_SIZE \div Half, CH_MAX_MSG_SIZE % Half>>,
                        <<CH_MAX_MSG_SIZE \div Half,
                          (CH_MAX_MSG_SIZE % Half) + 1>>,
                        <<Half - 1, Half - 1>>}}]

\* what ch_random_ints_as_bytes gives a new Remote as its first serial
InitSerials == {<<Half - 1, Half - 2>>}

World ==
    [msg |-> msg, remote |-> remote, conn |-> conn, protocol |-> protocol,
     ichirp |-> ichirp, uv |-> uv,
     hist |-> [hist EXCEPT !.cbs = {}, !.shut = {}, !.rel = {}, !.early = {},
                           !.unprobed = {}, !.wrote = {}, !.again = {},
                           !.rd = {}, !.over = {}]]

Commit(w) ==
    /\ msg' = w.msg
    /\ remote' = w.remote
    /\ conn' = w.conn
    /\ protocol' = w.protocol
    /\ ichirp' = w.ichirp
    /\ uv' = w.uv
    /\ hist' = w.hist

InUse(m) == InUseIn(World, m)

InitWith(L) ==
    /\ msg = [m \in MsgRefs |-> ch_msg_init]
    /\ remote = [r \in Remotes |-> NoRemote]
    /\ conn = [c \in Conns |-> NoConn]
    /\ protocol = [remotes |-> NULL, old_connections |-> {},
                   handshake_conns |-> {}, reconnect_remotes |-> <<>>,
                   reconnect_timeout |-> FALSE, gc_timeout |-> TRUE]
    /\ \E sync \in BOOLEAN, rand \in InitSerials :
         ichirp = [flags |-> {}, closing_tasks |-> 0, send_ts_queue |-> <<>>,
                   send_ts_async |-> FALSE, close_async |-> FALSE,
                   close_check |-> FALSE, handles |-> 0, done_async |-> "no",
                   orphans |-> 0, SYNCHRONOUS |-> sync, rand |-> rand]
    /\ uv = [c \in Conns |-> NoUv]
    /\ \E lim \in L :
       hist = [lim |-> lim, nsends |-> 0, sendno |-> [m \in Msgs |-> 0],
                wr |-> [m \in Msgs |-> "no"],
                acked |-> [m \in Msgs |-> FALSE],
                wconn |-> [m \in Msgs |-> NULL],
                cbcount |-> [k \in 1..DeepSends |-> 0], cbs |-> {}, shut |-> {},
                rel |-> {}, rd |-> {}, relcalls |-> 0,
                enq |-> <<>>,
                wire |-> NoWire, dangling |-> {}, uaf |-> FALSE,
                asserted |-> FALSE, counted |-> FALSE,
                held |-> [c \in Conns |-> 0],
                released |-> 0, nrecv |-> 0, naccepts |-> 0, nevents |-> 0,
                used |-> NotCalled, badrecv |-> FALSE,
                over |-> {}, oversize |-> FALSE, sr |-> NoSr, bf |-> NoBf,
                debounced |-> {}, early |-> {}, unprobed |-> {}, wrote |-> {},
                again |-> {},
                syncfails |-> IF "syncfails" \in DOMAIN lim
                              THEN lim.syncfails ELSE 0,
                done |-> FALSE]

Init == InitWith(Limits)

Running == ~hist.done

\* one more of the events MaxEvents bounds
Event(w) == [w EXCEPT !.hist.nevents = @ + 1]
CanHappen == hist.nevents < hist.lim.events

\* the loop still has chirp's handles: _ch_chirp_close_async_cb has not run
Open == ichirp.handles = 0 /\ ~ichirp.close_check /\ ichirp.done_async = "no"

\* the user calls ch_chirp_send with a message that is not in use
UserSend(m, u) ==
    /\ Running
    /\ ~InUse(m)
    /\ hist.nsends < hist.lim.sends
    /\ Commit(ch_chirp_send(Accept(World, m), m, "user", u))

\* the user calls ch_chirp_send_ts (from any thread) and chirp accepts
UserSendTs(m) ==
    /\ Running
    /\ ~InUse(m)
    /\ hist.nsends < hist.lim.sends
    /\ CH_MSG_USED \notin msg[m].flags
    /\ msg[m].send_cb = "NULL"
    /\ Commit([Accept(World, m) EXCEPT !.msg[m].send_cb = "user",
                            !.msg[m].next = TRUE,
                            !.ichirp.send_ts_queue = Append(@, m),
                            !.ichirp.send_ts_async = Open])

SendTsCb(u) ==
    /\ ichirp.send_ts_async
    /\ Commit(ch_wr_send_ts_cb([World EXCEPT !.ichirp.send_ts_async = FALSE], u))

ConnectCb(c, status, u) ==
    /\ uv[c].connect
    /\ Commit(_ch_wr_connect_cb([World EXCEPT !.uv[c].connect = FALSE],
                                c, status, u))

ConnectTimeoutCb(c, u) ==
    /\ uv[c].connect_timeout
    /\ Commit(_ch_wr_connect_timeout_cb(World, c, u))

NewConnectionCb ==
    /\ Open
    /\ hist.naccepts < hist.lim.accepts
    /\ CanHappen
    /\ Commit(_ch_pr_new_connection_cb(
                  [Event(World) EXCEPT !.hist.naccepts = @ + 1]))

\* _ch_rd_handshake_cb while the connection is open
HandshakeCb(c, status, u) ==
    /\ uv[c].hs
    /\ uv[c].closing = 0
    /\ Commit(_ch_rd_handshake_cb([World EXCEPT !.uv[c].hs = FALSE],
                                  c, status, u))

\* what the peer can make us read on connection c
Inputs(c) ==
    IF conn[c].reader_state = CH_RD_HANDSHAKE
    THEN {[kind |-> k] : k \in {"hs", "short", "eof"}}
    ELSE {[kind |-> "eof"]}
         \cup {[kind |-> "msg", type |-> t \cup {CH_MSG_NOOP}, ack |-> <<>>,
                 h |-> l.h, d |-> l.d] :
                  t \in {{}, {CH_MSG_ACK}, {CH_MSG_REQ_ACK}},
                  l \in hist.lim.lens}
         \cup {[kind |-> "msg", type |-> {CH_MSG_ACK}, ack |-> a,
                 h |-> l.h, d |-> l.d] :
                  a \in uv[c].acks, l \in hist.lim.lens}
         \cup (IF hist.nrecv < hist.lim.recv /\ CanHappen
               THEN {[kind |-> "msg", type |-> t, ack |-> <<>>,
                      h |-> l.h, d |-> l.d] :
                        t \in SUBSET {CH_MSG_REQ_ACK}, l \in hist.lim.lens}
               ELSE {})

\* _ch_pr_read_data_cb: libuv reads only between uv_read_start and
\* uv_read_stop, and our handshake has left before the peer answers
ReadDataCb(c, input, u) ==
    /\ conn[c].alloc
    /\ CH_CN_INIT_READER_WRITER \in conn[c].flags
    /\ CH_CN_SHUTTING_DOWN \notin conn[c].flags
    /\ CH_CN_STOPPED \notin conn[c].flags
    /\ ~uv[c].hs
    /\ input \in Inputs(c)
    /\ Commit(_ch_pr_read_data_cb(
                  [(IF input.kind = "msg" /\ WireKind(input.type) = "slot"
                    THEN Event(World) ELSE World) EXCEPT
                       !.hist.rd = IF ch_bf_is_exhausted(World, c)
                                   THEN {c} ELSE {},
                       !.hist.over =
                           IF input.kind = "msg"
                              /\ Greater(Sum(input.h, input.d),
                                         CH_MAX_MSG_SIZE)
                           THEN {c} ELSE {}],
                  c, input, u))

\* _ch_wr_write_data_cb while the connection is open
WriteDataCb(c, status, u) ==
    /\ uv[c].write
    /\ uv[c].closing = 0
    /\ Commit(_ch_wr_write_data_cb([World EXCEPT !.uv[c].write = FALSE],
                                   c, status, u))

\* _ch_wr_write_timeout_cb
WriteTimeoutCb(c, u) ==
    /\ uv[c].send_timeout
    /\ Commit(ch_cn_shutdown([World EXCEPT !.uv[c].send_timeout = FALSE],
                             c, CH_TIMEOUT, u))

ReconnectRemotesCb(u) ==
    /\ protocol.reconnect_timeout
    /\ Commit(ch_pr_reconnect_remotes_cb(World, u))

GcConnectionsCb(u) ==
    /\ protocol.gc_timeout
    /\ Commit(_ch_pr_gc_connections_cb(World, u))

\* the loop has no callback to run but those of the timers that repeat
Idle ==
    /\ \A c \in Conns : /\ ~uv[c].send_timeout /\ ~uv[c].connect_timeout
                         /\ ~uv[c].connect /\ ~uv[c].write /\ ~uv[c].hs
                         /\ uv[c].closing = 0
    /\ ~protocol.reconnect_timeout
    /\ ~ichirp.send_ts_async
    /\ ~ichirp.close_async

\* time passes in silence: more than REUSE_TIME, which is longer than every
\* send, connect and reconnect timeout (REUSE_TIME >= 3 * TIMEOUT), so none
\* of them is armed
Tick ==
    /\ CanHappen
    /\ Idle
    /\ protocol.gc_timeout
    /\ \/ \E c \in Conns : conn[c].alloc /\ conn[c].age < 1
       \/ \E r \in Remotes : remote[r].alloc /\ remote[r].age < 1
    /\ Commit([Event(World) EXCEPT
          !.conn = [c \in Conns |->
                      IF conn[c].alloc /\ conn[c].age < 1
                      THEN [conn[c] EXCEPT !.age = @ + 1] ELSE conn[c]],
          !.remote = [r \in Remotes |->
                      IF remote[r].alloc /\ remote[r].age < 1
                      THEN [remote[r] EXCEPT !.age = @ + 1] ELSE remote[r]]])

\* ch_chirp_close_ts
CloseTs ==
    /\ CanHappen
    /\ CH_CHIRP_CLOSING \notin ichirp.flags
    /\ Commit([Event(World) EXCEPT !.ichirp.flags = @ \cup {CH_CHIRP_CLOSING},
                            !.ichirp.close_async = TRUE])

CloseAsyncCb(u) ==
    /\ ichirp.close_async
    /\ Commit(_ch_chirp_close_async_cb(
                  [World EXCEPT !.ichirp.close_async = FALSE], u))

\* ch_chirp_close_cb for each of the handles _ch_chirp_close_async_cb has
\* closed: their close callbacks follow each other in the closing phase
ChirpCloseCb ==
    /\ ichirp.handles > 0
    /\ Commit([World EXCEPT !.ichirp.handles = 0,
                            !.ichirp.closing_tasks = @ - ichirp.handles])

\* a check that does not look at the semaphore
SemaphoreIgnored(w) == TRUE

\* if (ichirp->closing_tasks < 1)
SemaphoreFree(w) == w.ichirp.closing_tasks < 1

\* _ch_chirp_check_closing_cb, when it finds the semaphore below one
CheckClosingCb ==
    /\ ichirp.close_check
    /\ SemaphoreFree(World)
    /\ Commit([World EXCEPT !.ichirp.close_check = FALSE,
                            !.ichirp.done_async = "closing_down"])

\* _ch_chirp_closing_down_cb
ClosingDownCb ==
    /\ ichirp.done_async = "closing_down"
    /\ Commit([World EXCEPT !.ichirp.done_async = "sent"])

\* _ch_chirp_done_cb calling the user's done callback
DoneCb ==
    /\ ichirp.done_async = "sent"
    /\ Commit([World EXCEPT !.ichirp.done_async = "done",
                            !.hist.done = TRUE])

\* The closing phase of the loop iteration for the handles of connection c.
\* uv_close stops the i/o of the tcp handle, so libuv delivers the callbacks
\* of its outstanding writes (status 0 for a write that had completed, an
\* error for one it cancels) right before the handle's close callback; the
\* close callbacks of the connection's handles follow each other.
RECURSIVE CloseCbs(_, _)
CloseCbs(w, c) ==
    IF w.uv[c].closing = 0 THEN w ELSE CloseCbs(ch_cn_close_cb(w, c), c)

CnCloseCb(c, status, u) ==
    /\ uv[c].closing > 0
    /\ LET Handshake(x) ==
               IF x.uv[c].hs
               THEN _ch_rd_handshake_cb([x EXCEPT !.uv[c].hs = FALSE],
                                        c, status, u)
               ELSE x
           Write(x) ==
               IF x.uv[c].write
               THEN _ch_wr_write_data_cb([x EXCEPT !.uv[c].write = FALSE],
                                         c, status, u)
               ELSE x
       IN  Commit(CloseCbs(Write(Handshake(World)), c))

\* the user releases the slot of a received message
ReleaseMsgSlot(c, u) ==
    /\ Running
    /\ conn[c].alloc /\ conn[c].slot # NoMsg
    /\ Commit(ch_chirp_release_msg_slot(World, c, u))

\* ... and the slot of a message whose connection has been shut down
ReleaseOrphan ==
    /\ ichirp.orphans > 0
    /\ Commit([World EXCEPT !.ichirp.orphans = @ - 1,
                            !.hist.relcalls = @ + 1,
                            !.hist.released = @ + 1])

Statuses == {CH_SUCCESS, CH_WRITE_ERROR}

\* the user's callbacks send no message again, or every message they get
Users == {{}, Msgs}

Next ==
    \/ \E m \in Msgs, u \in Users : UserSend(m, u)
    \/ \E m \in Msgs : UserSendTs(m)
    \/ \E u \in Users : SendTsCb(u)
    \/ \E c \in Conns, st \in Statuses, u \in Users : ConnectCb(c, st, u)
    \/ \E c \in Conns, u \in Users : ConnectTimeoutCb(c, u)
    \/ NewConnectionCb
    \/ \E c \in Conns, st \in Statuses, u \in Users : HandshakeCb(c, st, u)
    \/ \E c \in Conns, u \in Users :
          \E input \in Inputs(c) : ReadDataCb(c, input, u)
    \/ \E c \in Conns, st \in Statuses, u \in Users : WriteDataCb(c, st, u)
    \/ \E c \in Conns, u \in Users : WriteTimeoutCb(c, u)
    \/ \E u \in Users : ReconnectRemotesCb(u)
    \/ \E u \in Users : GcConnectionsCb(u)
    \/ Tick
    \/ CloseTs
    \/ \E u \in Users : CloseAsyncCb(u)
    \/ ChirpCloseCb
    \/ CheckClosingCb
    \/ ClosingDownCb
    \/ DoneCb
    \/ \E c \in Conns, st \in Statuses, u \in Users : CnCloseCb(c, st, u)
    \/ \E c \in Conns, u \in Users : ReleaseMsgSlot(c, u)
    \/ ReleaseOrphan

Spec == Init /\ [][Next]_vars

\* the value ch_chirp_send returns (ch_wr_send) for a data message
ch_wr_send_returns(w) ==
    IF w.ichirp.flags \cap {CH_CHIRP_CLOSING, CH_CHIRP_CLOSED} # {}
    THEN CH_SHUTDOWN
    ELSE IF w.protocol.remotes # NULL
         THEN IF w.remote[w.protocol.remotes].msg_queue # <<>>
              THEN CH_QUEUED ELSE CH_SUCCESS
         ELSE IF ch_alloc_remote(w) = NULL THEN CH_ENOMEM ELSE CH_SUCCESS

\* what the call has changed in the objects of chirp
Changed(w) ==
    {f \in {"msg", "remote", "conn", "protocol", "ichirp", "uv"} :
        w[f] # World[f]}

\* the user calls ch_chirp_send with a message that is in use
UserSendUsed(m, u) ==
    /\ Running
    /\ InUse(m)
    /\ Commit([ch_chirp_send(World, m, "user", u) EXCEPT
                  !.hist.used = [called |-> TRUE,
                                 ret |-> ch_wr_send_returns(World),
                                 changed |-> Changed(
                                     ch_chirp_send(World, m, "user", u))]])

\* the program up to the first ch_chirp_send with a message in use
NextUsed ==
    \/ ~hist.used.called /\ Next
    \/ ~hist.used.called /\ \E m \in Msgs, u \in Users : UserSendUsed(m, u)

SpecUsed == InitWith({UsedLimits}) /\ [][NextUsed]_vars

\* the program with a peer that sends headers of every size
SpecVerify == InitWith({VerifyLimits}) /\ [][Next]_vars

\* the steps of the program while the peer opens no connection and sends no
\* data message, the user does not close chirp, and every send callback
\* sends its message again
NextSend ==
    \/ \E m \in Msgs : UserSend(m, Msgs)
    \/ \E m \in Msgs : UserSendTs(m)
    \/ SendTsCb(Msgs)
    \/ \E c \in Conns, st \in Statuses : ConnectCb(c, st, Msgs)
    \/ \E c \in Conns : ConnectTimeoutCb(c, Msgs)
    \/ \E c \in Conns, st \in Statuses : HandshakeCb(c, st, Msgs)
    \/ \E c \in Conns : \E input \in Inputs(c) : ReadDataCb(c, input, Msgs)
    \/ \E c \in Conns, st \in Statuses : WriteDataCb(c, st, Msgs)
    \/ \E c \in Conns : WriteTimeoutCb(c, Msgs)
    \/ ReconnectRemotesCb(Msgs)
    \/ GcConnectionsCb(Msgs)
    \/ \E c \in Conns, st \in Statuses : CnCloseCb(c, st, Msgs)

\* the program with a user that sends DeepSends times
SpecDeep ==
    InitWith({[sends |-> DeepSends, recv |-> 0, accepts |-> 0,
               events |-> 0, lens |-> {NoLen}]}) /\ [][NextSend]_vars

\* the steps of the program while the user does not close chirp, sends from
\* the loop's thread only and from no callback, and the peer sends no data
\* message
NextReuse ==
    \/ \E m \in Msgs : UserSend(m, {})
    \/ \E c \in Conns, st \in Statuses : ConnectCb(c, st, {})
    \/ NewConnectionCb
    \/ \E c \in Conns, st \in Statuses : HandshakeCb(c, st, {})
    \/ \E c \in Conns : \E input \in Inputs(c) : ReadDataCb(c, input, {})
    \/ \E c \in Conns, st \in Statuses : WriteDataCb(c, st, {})
    \/ ReconnectRemotesCb({})
    \/ GcConnectionsCb({})
    \/ Tick
    \/ \E c \in Conns, st \in Statuses : CnCloseCb(c, st, {})

\* the program with a peer whose address cannot be reached at first: the
\* first MaxSyncFails calls of uv_tcp_connect fail at once
SpecSync ==
    InitWith({[sends |-> MaxSends, recv |-> 0, accepts |-> 1,
               events |-> 2, lens |-> {NoLen},
               syncfails |-> MaxSyncFails]}) /\ [][NextReuse]_vars

\* configurations and messages: an identity of zeros, one with only its
\* last byte set, one with only its first byte set, one with every byte
\* set; ports, serials and lengths whose bytes differ from each other
SrLimits ==
    {[sends |-> 0, recv |-> 0, accepts |-> 0, events |-> 0, lens |-> {NoLen},
      cfg |-> [IDENTITY |-> id, PORT |-> port,
               random |-> [i \in 1..CH_ID_SIZE |-> 255 - i],
               serial |-> serial,
               msg |-> [identity |-> [i \in 1..CH_ID_SIZE |-> 2 * i],
                        type |-> type, header_len |-> len[1],
                        data_len |-> len[2]]]] :
        id \in {ZeroId, [ZeroId EXCEPT ![CH_ID_SIZE] = 1],
                [ZeroId EXCEPT ![1] = 9], [i \in 1..CH_ID_SIZE |-> i]},
        port \in {0, 258, 2998, Half - 1},
        serial \in {<<0, 0>>, <<258, 772>>, <<Half - 1, Half - 2>>},
        type \in {0, 1, 255},
        len \in {<<0, <<0, 0>>>>, <<258, <<1286, 1800>>>>,
                 <<Half - 1, <<Half - 1, Half - 1>>>>}}

\* ch_chirp_init with the configuration of the behaviour
ChirpInit ==
    /\ hist.sr.pc = "start"
    /\ Commit([World EXCEPT
                  !.hist.sr.pc = "init",
                  !.hist.sr.identity = chirp_identity(hist.lim.cfg.IDENTITY,
                                                      hist.lim.cfg.random)])

\* the user calls ch_chirp_get_identity
GetIdentity ==
    /\ hist.sr.pc = "init"
    /\ Commit([World EXCEPT
                  !.hist.sr.pc = "id",
                  !.hist.sr.id = ch_chirp_get_identity(hist.sr.identity)])

\* ch_rd_read in the state CH_RD_START: hs_tmp.port = ichirp->public_port,
\* hs_tmp.identity = ichirp->identity, ch_sr_hs_to_buf
HsToBuf ==
    /\ hist.sr.pc = "id"
    /\ Commit([World EXCEPT
                  !.hist.sr.pc = "hs_buf",
                  !.hist.sr.buf = ch_sr_hs_to_buf(
                      [port |-> hist.lim.cfg.PORT,
                       identity |-> hist.sr.identity])])

\* the peer's _ch_rd_handshake: ch_sr_buf_to_hs of what it has read
BufToHs ==
    /\ hist.sr.pc = "hs_buf"
    /\ Commit([World EXCEPT !.hist.sr.pc = "hs",
                            !.hist.sr.hs = ch_sr_buf_to_hs(hist.sr.buf)])

\* ch_wr_write: ch_sr_msg_to_buf(msg, writer->net_msg, remote->serial)
MsgToBuf ==
    /\ hist.sr.pc = "hs"
    /\ Commit([World EXCEPT
                  !.hist.sr.pc = "msg_buf",
                  !.hist.sr.buf = ch_sr_msg_to_buf(hist.lim.cfg.msg,
                                                   hist.lim.cfg.serial)])

\* the peer's _ch_rd_read_step: ch_sr_buf_to_msg of what it has read
BufToMsg ==
    /\ hist.sr.pc = "msg_buf"
    /\ Commit([World EXCEPT !.hist.sr.pc = "msg",
                            !.hist.sr.msg = ch_sr_buf_to_msg(hist.sr.buf)])

NextSr ==
    \/ ChirpInit
    \/ GetIdentity
    \/ HsToBuf
    \/ BufToHs
    \/ MsgToBuf
    \/ BufToMsg

\* a node that is initialised and whose handshake and one message go
\* through the serializer to the peer
SpecSr == InitWith(SrLimits) /\ [][NextSr]_vars

BfLive == hist.bf.pool.state = "live" /\ hist.bf.calls < MaxPoolCalls

\* ch_rd_init: ch_bf_init(reader->pool, conn, ichirp->config.MAX_SLOTS)
BfInit(max_slots) ==
    /\ hist.bf.pool.state = "none"
    /\ Commit([World EXCEPT !.hist.bf.pool = ch_bf_init(max_slots)])

\* _ch_rd_read_step in CH_RD_SLOT: reader->slot = ch_bf_acquire(reader->pool)
BfAcquire ==
    /\ BfLive /\ hist.bf.pool.conn /\ hist.bf.slot = {}
    /\ Commit([World EXCEPT
                 !.hist.bf = [BfCall(@, ch_bf_acquire(@.pool)) EXCEPT
                                  !.slot = AcquiredSlot(hist.bf.pool),
                                  !.acquired = AcquiredSlot(hist.bf.pool)]])

\* _ch_rd_handle_msg: reader->slot = NULL; reader->pool->refcnt += 1; the
\* receive callback gets the message of the slot
BfHandleMsg ==
    /\ BfLive /\ hist.bf.pool.conn /\ hist.bf.slot # {}
    /\ Commit([World EXCEPT
                 !.hist.bf = [BfCall(@, [@.pool EXCEPT !.refcnt = @ + 1])
                              EXCEPT !.slot = {},
                                     !.held = @ \cup hist.bf.slot,
                                     !.given = @ \cup hist.bf.slot]])

\* ch_chirp_release_msg_slot for a message the user was given, released
\* before or not: ch_bf_release(pool, msg->_slot); ch_bf_free(pool).  The
\* pool of the message may have been freed.
BfReleaseMsgSlot(id) ==
    /\ hist.bf.calls < MaxPoolCalls
    /\ id \in hist.bf.given
    /\ IF hist.bf.pool.state = "live"
       THEN Commit([World EXCEPT
                      !.hist.bf =
                          [BfCall(@, ch_bf_free(ch_bf_release(@.pool, id)))
                           EXCEPT !.held = @ \ {id},
                                  !.double = InPool(hist.bf.pool, id)]])
       ELSE Commit([World EXCEPT !.hist.bf.uaf = TRUE,
                                 !.hist.bf.calls = @ + 1])

\* ch_rd_free: reader->pool->conn = NULL; ch_bf_free(reader->pool)
BfRdFree ==
    /\ hist.bf.calls < MaxPoolCalls
    /\ hist.bf.pool.conn
    /\ IF hist.bf.pool.state = "live"
       THEN Commit([World EXCEPT
                      !.hist.bf =
                          [BfCall(@, ch_bf_free([@.pool EXCEPT
                                                     !.conn = FALSE]))
                           EXCEPT !.slot = {}]])
       ELSE Commit([World EXCEPT !.hist.bf.uaf = TRUE,
                                 !.hist.bf.pool.conn = FALSE,
                                 !.hist.bf.calls = @ + 1])

\* config.MAX_SLOTS after ch_chirp_init: 1 to 32
SlotCounts == {1, 2, 3, 32}

NextBf ==
    \/ \E n \in SlotCounts : BfInit(n)
    \/ BfAcquire
    \/ BfHandleMsg
    \/ \E id \in 0..31 : BfReleaseMsgSlot(id)
    \/ BfRdFree

\* one buffer pool, its reader and a user who releases the messages they
\* were given, some of them more than once
SpecBf ==
    InitWith({[sends |-> 0, recv |-> 0, accepts |-> 0, events |-> 0,
               lens |-> {NoLen}]}) /\ [][NextBf]_vars

TypeOK ==
    /\ hist.nsends \in 0..DeepSends
    /\ \A c \in Conns : conn[c].shutdown_tasks \in 0..3

(***************************************************************************)
(* Properties.  hist.cbs holds the send callbacks of the step that led to  *)
(* the state, hist.shut the connections that step has shut down, hist.rel  *)
(* the connections whose slot it has released and hist.rd the connection   *)
(* that had a read from its socket in it while its pool was exhausted.     *)
(***************************************************************************)
\* the send that message m is in has had no callback yet
Unfinished(m) == hist.sendno[m] # 0 /\ hist.cbcount[hist.sendno[m]] = 0

\* the data messages of unfinished sends that were written and whose ACK
\* has not come
InFlight == {m \in Msgs : Unfinished(m) /\ hist.wr[m] # "no" /\ ~hist.acked[m]}

\* the reasons ch_cn_shutdown gets when a connection fails
ConnFailures == {CH_PROTOCOL_ERROR, CH_TIMEOUT, CH_CANNOT_CONNECT, CH_WRITE_ERROR}

\* C1: in synchronous mode a send callback reports SUCCESS only for a send
\* whose write was completed and whose own ACK was received.
C1_SuccessAfterWriteAndAck ==
    \A e \in hist.cbs :
        ichirp.SYNCHRONOUS /\ e.status = CH_SUCCESS
            => e.wr = "done" /\ e.acked

\* C2: the send callback is invoked at most once for every accepted send.
C2_CallbackAtMostOnce == \A k \in DOMAIN hist.cbcount : hist.cbcount[k] <= 1

\* C2, its case: chirp was closed and is done, and both sends of the
\* behaviour have had their callback
C2_Witness == hist.done /\ \A k \in Sends : hist.cbcount[k] = 1

\* the loop has no callback left to run and no handle that could bring one
LoopEnded ==
    /\ \A c \in Conns : ~conn[c].alloc /\ uv[c] = NoUv
    /\ ~protocol.reconnect_timeout /\ ~protocol.gc_timeout
    /\ ~ichirp.send_ts_async /\ ~ichirp.close_async /\ ~ichirp.close_check
    /\ ichirp.handles = 0
    /\ ichirp.done_async \in {"no", "done"}

\* C3: in synchronous mode every accepted send gets its send callback; so
\* when the loop has run every callback there was, no send is left
\* without its callback.
C3_NoSendLeftWhenLoopEnds ==
    ichirp.SYNCHRONOUS /\ LoopEnded => \A m \in Msgs : ~Unfinished(m)

\* C4: after the send callback of a message chirp does not modify the
\* message until the user sends it again.
C4_UntouchedAfterCallback ==
    [][\A m \in Msgs :
          (~Unfinished(m) /\ hist.sendno'[m] = hist.sendno[m])
              => msg'[m] = msg[m]]_vars

\* C5: in synchronous mode at most one data message of the Remote is
\* written and neither acknowledged nor failed.
C5_OneInFlight == ichirp.SYNCHRONOUS => Cardinality(InFlight) <= 1

\* C5, its case: a data message is in flight and another one waits for it
\* in the Remote's queue
C5_Witness ==
    /\ ichirp.SYNCHRONOUS
    /\ \E r \in Remotes, m \in InFlight :
          /\ remote[r].wait_ack_message = m
          /\ remote[r].msg_queue # <<>>
          /\ conn[hist.wconn[m]].writer_msg = NULL

\* C6: no data message is written while one that was enqueued before it
\* is still waiting.
C6_WrittenInOrder == hist.wire.early = {}

\* b is a + 1 modulo 2^32
IsNext32(a, b) ==
    IF a[2] = Half - 1
    THEN b[2] = 0 /\ (IF a[1] = Half - 1 THEN b[1] = 0 ELSE b[1] = a[1] + 1)
    ELSE b[1] = a[1] /\ b[2] = a[2] + 1

\* C7: the serials of two messages written one after the other for the
\* Remote differ by one modulo 2^32.
C7_SerialsConsecutive ==
    hist.wire.prev # <<>> => IsNext32(hist.wire.prev, hist.wire.last)

\* C7, its case: the serial has wrapped from 2^32 - 1 to 0
C7_Witness ==
    hist.wire.prev = <<Half - 1, Half - 1>> /\ hist.wire.last = <<0, 0>>

\* C8: while a written data message lacks WRITE_DONE or ACK_RECEIVED the
\* send timeout of its connection is armed.
C8_TimeoutArmed ==
    \A m \in Msgs :
        Unfinished(m) /\ hist.wr[m] # "no" => uv[hist.wconn[m]].send_timeout

\* C9, its first half alone: when a connection fails a failure callback
\* goes only to the writer's current message and to the message awaiting an
\* ACK.  ch_cn_shutdown aborts one queued message when it has finished none.
C9_OnlyInFlightFail ==
    \A e \in hist.cbs :
        e.status \in ConnFailures
            => \E s \in hist.shut : /\ s.reason = e.status
                                    /\ e.m \in {s.wam, s.msg}

\* C9: when a connection fails a failure callback goes to the writer's
\* current message and to the message awaiting an ACK (and, as
\* ch_cn_abort_one_message does when there is neither, to the first message
\* of the Remote's data queue), to no other; every message that has been
\* accepted and not written is still in a queue: none is dropped.
C9_InFlightOrFirstQueued ==
    /\ \A e \in hist.cbs :
          e.status \in ConnFailures
              => \E s \in hist.shut :
                    /\ s.reason = e.status
                    /\ \/ e.m \in {s.wam, s.msg}
                       \/ s.wam = NULL /\ s.msg = NULL /\ s.head = e.m
    /\ \A m \in Msgs :
          Unfinished(m) /\ hist.wr[m] = "no"
              => \/ \E i \in DOMAIN ichirp.send_ts_queue :
                        ichirp.send_ts_queue[i] = m
                 \/ \E r \in Remotes :
                        \E i \in DOMAIN remote[r].msg_queue :
                            remote[r].msg_queue[i] = m

\* C10: when the done callback runs every accepted send has had its
\* callback.
C10_NoSendLeftAtDone == hist.done => \A m \in Msgs : ~Unfinished(m)

\* a close callback that the closing semaphore counts is still to run: one
\* of chirp's handles or of a connection shut down while chirp was closing
CloseCbPending ==
    \/ ichirp.handles > 0
    \/ \E c \in Conns : /\ CH_CN_DO_CLOSE_ACCOUTING \in conn[c].flags
                         /\ uv[c].closing > 0

\* libuv has no callback of chirp left to call unless the peer acts
NoCallbackLeft ==
    /\ Idle
    /\ ichirp.handles = 0
    /\ ~(ichirp.close_check /\ SemaphoreFree(World))
    /\ ichirp.done_async \notin {"closing_down", "sent"}

\* C11: after close_ts the done callback is on its way or has fired only
\* when no counted close callback is pending and the semaphore is back at
\* zero, it fires once, and the close never gets stuck before it has fired.
C11_DoneAfterCloseCallbacks ==
    /\ ichirp.done_async # "no" => ~CloseCbPending /\ ichirp.closing_tasks = 0
    /\ hist.done <=> ichirp.done_async = "done"
    /\ CH_CHIRP_CLOSING \in ichirp.flags /\ NoCallbackLeft => hist.done

C11_Witness == hist.done /\ hist.counted


\* C12: a connection never has more than MAX_SLOTS messages that were passed
\* to the receive callback and not released yet; with the one slot of
\* MAX_SLOTS = 1 the receive callback of the next message fires only when the
\* slot of the one before has been released.
C12_SlotsBounded ==
    \A c \in Conns : /\ hist.held[c] <= MAX_SLOTS
                     /\ hist.held[c] = used_slots(World, c)

\* a second message has come while the first holds the slot, the slot was
\* released and the second message was delivered
C12_Witness ==
    \E c \in Conns : hist.held[c] = 1 /\ hist.nrecv = 2 /\ hist.released > 0


\* the connection is live and its reader has been stopped
Stopped(c) ==
    /\ conn[c].alloc
    /\ CH_CN_SHUTTING_DOWN \notin conn[c].flags
    /\ CH_CN_STOPPED \in conn[c].flags

C14_NoReadWhileExhausted ==
    [][\A c \in Conns :
         conn[c].alloc /\ ch_bf_is_exhausted(World, c) => c \notin hist'.rd]_vars

\* C14: a connection that was stopped because its reader got no slot from
\* the exhausted pool, and that holds the bytes of that message, has no read
\* from its socket and its pool stays exhausted.
C14_NoReadWhileStopped ==
    [][\A c \in Conns :
         conn[c].alloc /\ uv[c].stash # <<>>
         => c \notin hist'.rd /\ ch_bf_is_exhausted(World, c)]_vars

\* the reader has been stopped with the pool exhausted, and something else
\* has happened since
C14_Witness ==
    \E c \in Conns : /\ Stopped(c) /\ uv[c].stash # <<>>
                     /\ ch_bf_is_exhausted(World, c)
                     /\ hist.rd = {}


\* C15: in asynchronous mode a user message goes out without REQ_ACK and no
\* ACK is awaited for it on the wire, no Remote ever has a
\* wait_ack_message, and the step that completes the write of a send calls
\* its send callback with SUCCESS: no state has a send whose write is
\* completed and whose callback has not been called.
C15_AsyncNoAck ==
    ~ichirp.SYNCHRONOUS =>
        /\ \A m \in Msgs : Unfinished(m) => CH_MSG_REQ_ACK \notin msg[m].type
        /\ \A c \in Conns : uv[c].acks = {}
        /\ \A r \in Remotes : remote[r].wait_ack_message = NULL
        /\ \A m \in Msgs : hist.wr[m] # "done"
        /\ \A e \in hist.cbs : e.wr = "done" => e.status = CH_SUCCESS

\* the write of a send was completed, its callback got SUCCESS and the next
\* message of the queue has been written in the same step
C15_Witness ==
    /\ ~ichirp.SYNCHRONOUS
    /\ \E e \in hist.cbs : e.status = CH_SUCCESS /\ e.wr = "done" /\ e.first
    /\ \E m \in Msgs : hist.wr[m] = "started"


\* C16: ch_chirp_send with a message that is in use returns CH_USED and
\* changes nothing: the message is not enqueued or written again, the send
\* it is in and its callback stay as they were.
C16_UsedMessageRejected ==
    hist.used.called => hist.used.ret = CH_USED /\ hist.used.changed = {}


\* the ACK of connection c carries a release callback and is where chirp
\* will finish it: in a control queue or with a writer
AckPending(c) ==
    /\ msg[AckOf(c)].release_cb
    /\ \/ \E r \in Remotes :
             \E i \in DOMAIN remote[r].cntl_msg_queue :
                 remote[r].cntl_msg_queue[i] = AckOf(c)
       \/ \E d \in Conns : conn[d].writer_msg = AckOf(c)

\* C17: every call of ch_chirp_release_msg_slot has had its release
\* callback once, or its ACK is still to be sent or failed and carries the
\* callback; no call is left without callback and none gets it twice.
C17_ReleaseCbOnce ==
    hist.relcalls
        = hist.released + Cardinality({c \in Conns : AckPending(c)})


\* C18: every message the receive callback has got was a data message: its
\* type has neither the ACK nor the NOOP bit, and its flags do not have
\* CH_MSG_USED.
C18_DataMessagesOnly ==
    /\ ~hist.badrecv
    /\ \A c \in Conns :
          /\ conn[c].slot.type \cap {CH_MSG_ACK, CH_MSG_NOOP} = {}
          /\ CH_MSG_USED \notin conn[c].slot.flags

\* a message that asks for an ACK was passed to the receive callback while
\* the peer owed us an ACK on the same connection
C18_Witness ==
    \E c \in Conns : /\ CH_MSG_SEND_ACK \in conn[c].slot.flags
                     /\ uv[c].acks # {}
                     /\ hist.nrecv > 0


\* C19: the step that reads a wire header with header_len + data_len above
\* MAX_MSG_SIZE shuts the connection down with the reason PROTOCOL_ERROR and
\* passes no message to the receive callback.
C19_OversizeRejected ==
    [][\A c \in hist'.over :
         /\ \E e \in hist'.shut : e.c = c /\ e.reason = CH_PROTOCOL_ERROR
         /\ hist'.nrecv = hist.nrecv
         /\ hist'.held[c] = 0 /\ uv'[c].stash = <<>>]_vars

\* C20: the reader accepts no wire header whose header_len + data_len, as
\* numbers, is above MAX_MSG_SIZE.
C20_NoWrapAround == ~hist.oversize


\* C21: a configured IDENTITY that is not all zero is the identity of the
\* node: what ch_chirp_init has stored, what ch_chirp_get_identity returns
\* and what the peer reads from the handshake are its 16 bytes.
C21_ConfiguredIdentity ==
    hist.lim.cfg.IDENTITY # ZeroId =>
        /\ hist.sr.pc # "start" => hist.sr.identity = hist.lim.cfg.IDENTITY
        /\ hist.sr.id # <<>> => hist.sr.id = hist.lim.cfg.IDENTITY
        /\ hist.sr.hs # <<>> => hist.sr.hs.identity = hist.lim.cfg.IDENTITY


\* C23: the handshake the peer decodes has the port and the identity that
\* were encoded, the wire header it decodes the identity, serial, type,
\* header_len and data_len that were encoded.
C23_RoundTrip ==
    /\ hist.sr.hs # <<>>
          => hist.sr.hs = [port |-> hist.lim.cfg.PORT,
                           identity |-> hist.sr.identity]
    /\ hist.sr.msg # <<>>
          => hist.sr.msg = [identity |-> hist.lim.cfg.msg.identity,
                            type |-> hist.lim.cfg.msg.type,
                            header_len |-> hist.lim.cfg.msg.header_len,
                            data_len |-> hist.lim.cfg.msg.data_len,
                            serial |-> hist.lim.cfg.serial]

\* a handshake and a wire header whose bytes all differ have been decoded
C23_Witness ==
    /\ hist.sr.pc = "msg"
    /\ hist.lim.cfg.PORT = 2998
    /\ hist.lim.cfg.serial = <<258, 772>>
    /\ hist.lim.cfg.msg.data_len = <<1286, 1800>>
    /\ hist.sr.identity = hist.lim.cfg.random


\* the connection has completed its handshake and has not been shut down
Established(c) ==
    /\ conn[c].alloc /\ conn[c].remote # NULL
    /\ CH_CN_CONNECTED \in conn[c].flags
    /\ CH_CN_SHUTTING_DOWN \notin conn[c].flags

\* the connection is not, or no longer, a connection in use
Gone(c) == ~conn[c].alloc \/ CH_CN_SHUTTING_DOWN \in conn[c].flags

\* of the established connections of a Remote that has more than one, one
\* is the Remote's conn and every other one is in old_connections
OneAuthoritative ==
    \A r \in Remotes :
        LET both == {c \in Conns : Established(c) /\ conn[c].remote = r}
        IN  Cardinality(both) > 1
            => /\ remote[r].conn \in both
               /\ remote[r].conn \notin protocol.old_connections
               /\ both \ {remote[r].conn} \subseteq protocol.old_connections

\* C22 as stated: when more than REUSE_TIME has passed since a connection
\* was superseded, the connection has been shut down.
C22_LoserClosedInReuseTime ==
    [][Tick => \A c \in protocol.old_connections : Gone(c)']_vars

\* C22: of the two connections of a race exactly one is authoritative and
\* the other one is in old_connections, and the run of the garbage
\* collector that finds the superseded connection unused for more than
\* REUSE_TIME shuts it down.
C22_LoserClosedByGc ==
    [][/\ OneAuthoritative'
       /\ (\E u \in Users : GcConnectionsCb(u))
              => \A c \in protocol.old_connections :
                    conn[c].age >= 1 => Gone(c)']_vars

\* the collector has shut down the connection that lost the race and has
\* left the Remote and its authoritative connection
C22_Witness ==
    \E c, d \in Conns :
        /\ \E e \in hist.shut : e.c = c /\ e.reason = CH_SHUTDOWN
        /\ CH_CN_INCOMING \in conn[c].flags \cup conn[d].flags
        /\ Established(d)
        /\ remote[conn[d].remote].conn = d
        /\ protocol.old_connections = {}


\* the elements of a sequence
Range(q) == {q[i] : i \in DOMAIN q}

\* C24: a step that shuts down a connection which is not the authoritative
\* one of its Remote leaves the Remote's wait_ack_message where it is, and
\* what was in its control queue and its data queue is still there or has
\* been handed to a writer: nothing of it is failed or dropped.
C24_OldShutdownKeepsRemote ==
    [][\A s \in hist'.shut :
         LET r == conn[s.c].remote
         IN  (r # NULL /\ remote[r].conn \notin {NULL, s.c} /\ remote'[r].alloc)
             => /\ remote[r].wait_ack_message # NULL
                   => remote'[r].wait_ack_message = remote[r].wait_ack_message
                /\ \A m \in Range(remote[r].cntl_msg_queue) :
                      \/ m \in Range(remote'[r].cntl_msg_queue)
                      \/ \E d \in Conns : conn'[d].writer_msg = m
                /\ \A m \in Range(remote[r].msg_queue) :
                      \/ m \in Range(remote'[r].msg_queue)
                      \/ \E d \in Conns : conn'[d].writer_msg = m]_vars


\* C25: no connection has its remote field pointing to a Remote that has
\* been freed, and no read, write completion or shutdown has accessed a
\* freed Remote.
C25_NoFreedRemoteReferenced == hist.dangling = {} /\ ~hist.uaf


\* C26: whenever a send callback of the user is called, with CH_SUCCESS or
\* with an error, the message is not marked CH_MSG_USED any more
C26_CallbackMessageNotUsed == \A e \in hist.cbs : ~e.used


\* C27: once a connection of a Remote has been shut down, no outgoing
\* connect is started for that Remote before the reconnect timer has fired,
\* a connect that fails at once inside the reconnect timer's callback
\* included
C27_NoConnectBeforeReconnectTimer == hist.early = {}


\* C28: when ch_wr_send enqueues a message for a Remote whose last activity
\* is older than 3/4 REUSE_TIME, the Remote's NOOP is in the control queue
\* or being written before the message is enqueued
C28_ProbeBeforeMessage == hist.unprobed = {}


\* a connection the dispatcher can write on: connected, not shutting down,
\* its writer free
Writable(c) ==
    /\ c # NULL
    /\ CH_CN_CONNECTED \in conn[c].flags
    /\ CH_CN_SHUTTING_DOWN \notin conn[c].flags
    /\ conn[c].writer_msg = NULL

\* C29: the dispatcher writes the head of the control queue whenever that
\* queue is not empty and a data message only when it is empty; so no ACK
\* or NOOP stays queued on a Remote whose connection can be written on,
\* whether or not a data message waits for its own ACK
C29_ControlQueueFirst ==
    /\ \A e \in hist.wrote :
          IF e.cntl # <<>> THEN e.m = Head(e.cntl)
          ELSE e.queue # <<>> /\ e.m = Head(e.queue)
    /\ \A r \in Remotes :
          remote[r].alloc /\ Writable(remote[r].conn)
              => remote[r].cntl_msg_queue = <<>>

\* an ACK is written while a data message waits for its own ACK
C29_Witness ==
    \E e \in hist.wrote :
        /\ e.wam # NULL
        /\ CH_MSG_ACK \in msg[e.m].type
        /\ e.cntl # <<>>
        /\ \E c \in Conns : conn[c].writer_msg = e.m


\* C30: between the callbacks of the loop (no ch_cn_shutdown is running), a
\* Remote whose conn is set is the remote of that connection
C30_ConnPointsBack ==
    \A r \in Remotes :
        remote[r].alloc /\ remote[r].conn # NULL
            => /\ conn[remote[r].conn].alloc
               /\ conn[remote[r].conn].remote = r

\* a connection has just been shut down and the Remote has another
\* connection, which points back to it
C30_Witness ==
    \E s \in hist.shut, r \in Remotes :
        /\ remote[r].alloc
        /\ remote[r].conn \notin {NULL, s.c}
        /\ conn[remote[r].conn].remote = r

\* C31: no connection of handshake_conns is the connection of a Remote or a
\* member of old_connections
C31_HandshakeConnsApart ==
    \A c \in protocol.handshake_conns :
        /\ \A r \in Remotes : ~(remote[r].alloc /\ remote[r].conn = c)
        /\ c \notin protocol.old_connections

\* C32: ch_cn_shutdown of a connection that is shutting down already changes
\* nothing: no message, no Remote, no connection, no handle, no semaphore
\* and no callback
C32_SecondShutdownChangesNothing ==
    \A c \in Conns, reason \in ConnFailures, u \in Users :
        conn[c].alloc /\ CH_CN_SHUTTING_DOWN \in conn[c].flags
            => ch_cn_shutdown(World, c, reason, u) = InProgress(World, c)

\* a handler has called ch_cn_shutdown for a connection that was shutting
\* down
C32_Witness == hist.again # {}

\* ch_cn_close_cb for k of the handles of the connection
RECURSIVE CloseTimes(_, _, _)
CloseTimes(w, c, k) ==
    IF k = 0 THEN w ELSE CloseTimes(ch_cn_close_cb(w, c), c, k - 1)

FreeSlots(pool) ==
    {i \in 0..(pool.max_slots - 1) : Bit32(pool.free_slots, 31 - i) = 1}

\* C34: the reference count of a pool is 1 while its connection owns it plus
\* the number of slots the user holds; the pool is freed once, when the
\* connection has released it and no slot is held, and is not used after
C34_RefcntCountsHolders ==
    LET b == hist.bf
    IN  /\ b.pool.state = "live"
            => b.pool.refcnt = (IF b.pool.conn THEN 1 ELSE 0)
                                   + Cardinality(b.held)
        /\ b.pool.state = "freed" => ~b.pool.conn /\ b.held = {}
        /\ b.frees <= 1
        /\ ~b.uaf

\* C35: used_slots is the number of slots among the first max_slots whose
\* free bit is clear, and the release of a slot that is free changes nothing
C35_UsedSlotsCountsClearBits ==
    LET pool == hist.bf.pool
    IN  pool.state = "live"
            => /\ pool.used_slots
                      = pool.max_slots - Cardinality(FreeSlots(pool))
               /\ pool.used_slots \in 0..pool.max_slots
               /\ \A i \in 0..31 : i >= pool.max_slots
                                       => Bit32(pool.free_slots, 31 - i) = 0
               /\ \A i \in FreeSlots(pool) : ch_bf_release(pool, i) = pool

\* a slot that was free has been released again
C35_Witness ==
    /\ hist.bf.pool.state = "live"
    /\ hist.bf.double
    /\ hist.bf.pool.used_slots > 0

\* C36 as stated: ch_bf_acquire returns the free slot with the highest index
C36_AcquireHighestFree ==
    LET pool == hist.bf.pool
    IN  pool.state = "live"
            => IF pool.used_slots = pool.max_slots
               THEN AcquiredSlot(pool) = {}
               ELSE /\ AcquiredSlot(pool) \subseteq FreeSlots(pool)
                    /\ \A i \in AcquiredSlot(pool), j \in FreeSlots(pool) :
                           j <= i
                    /\ AcquiredSlot(pool) # {}

\* C36: ch_bf_acquire returns the free slot with the lowest index, the one of
\* the most significant bit set in free_slots, and NULL exactly when
\* used_slots = max_slots
C36_AcquireLowestFree ==
    LET pool == hist.bf.pool
    IN  pool.state = "live"
            => IF pool.used_slots = pool.max_slots
               THEN AcquiredSlot(pool) = {}
               ELSE /\ AcquiredSlot(pool) \subseteq FreeSlots(pool)
                    /\ \A i \in AcquiredSlot(pool), j \in FreeSlots(pool) :
                           i <= j
                    /\ AcquiredSlot(pool) # {}

\* the pool has returned a slot while a slot before it was in use and one
\* after it was free
C36_Witness ==
    /\ hist.bf.pool.state = "live"
    /\ \E i \in hist.bf.acquired :
          /\ \E j \in hist.bf.pool.used : j < i
          /\ \E j \in FreeSlots(hist.bf.pool) : j > i

\* C37: the dispatcher hands a message to ch_wr_write only for a connection
\* that is connected, is not shutting down and whose writer has no message
C37_WriterFreeAtWrite ==
    \A e \in hist.wrote :
        /\ CH_CN_CONNECTED \in e.flags
        /\ CH_CN_SHUTTING_DOWN \notin e.flags
        /\ e.writer = NULL

\* a message has been written while the next one waits in the queue of the
\* Remote, whose connection is writing
C37_Witness ==
    \E e \in hist.wrote :
        /\ ~ichirp.SYNCHRONOUS
        /\ remote[e.r].msg_queue # <<>>
        /\ remote[e.r].conn # NULL
        /\ conn[remote[e.r].conn].writer_msg = e.m

\* a connection that is allocated after the step and was not before it
Created(c) == ~conn[c].alloc /\ conn'[c].alloc

\* a message that is in a queue of a Remote after the step and was not
\* before it
Added(r) ==
    \/ Range(remote'[r].msg_queue) \ Range(remote[r].msg_queue) # {}
    \/ Range(remote'[r].cntl_msg_queue) \ Range(remote[r].cntl_msg_queue) # {}

\* once ch_chirp_close_ts has set CH_CHIRP_CLOSING the step creates no
\* connection
NoneCreated ==
    CH_CHIRP_CLOSING \in ichirp.flags => \A c \in Conns : ~Created(c)

\* once ch_chirp_close_ts has set CH_CHIRP_CLOSING the step adds no message
\* to a queue of a Remote
NoneAdded ==
    CH_CHIRP_CLOSING \in ichirp.flags => \A r \in Remotes : ~Added(r)

\* C38: once ch_chirp_close_ts has set CH_CHIRP_CLOSING no step creates a
\* connection, accepted or dialled, and no step adds a message to a queue of
\* a Remote
C38_NothingNewWhileClosing == [][NoneCreated /\ NoneAdded]_vars

\* the connections ch_cn_shutdown has added to closing_tasks and whose last
\* close callback has not run
CountedConns ==
    {c \in Conns : conn[c].alloc /\ CH_CN_DO_CLOSE_ACCOUTING \in conn[c].flags}

\* C39: closing_tasks is never negative: it is the number of chirp's handles
\* whose close callback is due plus the number of connections that were shut
\* down while chirp was closing and are not yet freed, so a connection that
\* was shut down before the closing began takes nothing from it
C39_ClosingTasksMatched ==
    /\ ichirp.closing_tasks >= 0
    /\ ichirp.closing_tasks = ichirp.handles + Cardinality(CountedConns)

\* chirp is closing, a connection shut down while it was closing is counted
\* and another one, shut down before, is on its way out without being counted
C39_Witness ==
    /\ CH_CHIRP_CLOSING \in ichirp.flags
    /\ CountedConns # {}
    /\ \E c \in Conns : /\ conn[c].alloc
                        /\ CH_CN_SHUTTING_DOWN \in conn[c].flags
                        /\ c \notin CountedConns

\* C40: the connection a Remote points to is not a member of
\* old_connections, the set _ch_pr_gc_connections_cb shuts down from
C40_AuthoritativeNotOld ==
    \A r \in Remotes :
        remote[r].alloc /\ remote[r].conn # NULL
            => remote[r].conn \notin protocol.old_connections

\* a handshake has replaced the connection of a Remote: the Remote points to
\* the new one, which is connected, and the old one is in old_connections
C40_Witness ==
    \E r \in Remotes :
        /\ remote[r].alloc
        /\ remote[r].conn # NULL
        /\ CH_CN_CONNECTED \in conn[remote[r].conn].flags
        /\ protocol.old_connections # {}

====
